---- MODULE Spec2Model ----
(***************************************************************************)
(* The two binary loaders of the viewer, MDLFileLoader (animated models)   *)
(* and BSPFileLoader (levels), with the BinaryReader cursor they share,    *)
(* and the viewer's before-render callback that animates a loaded model.   *)
(* The input file is a sequence of bytes; every value the loaders use is   *)
(* obtained from it by the cursor's little-endian reads.                   *)
(*                                                                         *)
(* Numbers.  A 32-bit word is held as a signed integer; the files the      *)
(* model enumerates keep every unsigned field below 2^31.  Floats in the   *)
(* files are IEEE-754 single precision bit patterns of integers and are    *)
(* decoded from their bits; the normal table is held in millionths.        *)
(***************************************************************************)
EXTENDS Integers, Sequences, FiniteSets, TLC

VARIABLES
  loader,   \* "mdl" or "bsp": which importMesh is running
  input,    \* description of the file under decode (never read by the loaders)
  data,     \* the ArrayBuffer handed to importMesh, a sequence of bytes
  meshes,   \* the meshes argument: [null, list], null when the caller passes null
  offset,   \* BinaryReader._byteOffset
  hiRead,   \* end of the highest byte range fetched from the DataView so far
  pc,       \* position of importMesh
  result,   \* "none" while running, then "true", "false" or "throw"
  mdl,      \* locals of MDLFileLoader.importMesh
  bsp,      \* locals of BSPFileLoader.importMesh
  calls,    \* [n, first]: which call of importMesh on data this is, and what
            \* the first call left behind
  view,     \* the viewer's animation: the before-render callback, its time
            \* and the influences of the mesh's morph targets
  reader    \* the last BinaryReader method called directly on the cursor

vars ==
  <<loader, input, data, meshes, offset, hiRead, pc, result, mdl, bsp, calls, view,
    reader>>

----------------------------------------------------------------------------
(* Bounds of the enumerated files.                                         *)

MaxSkins == 2
MaxVerts == 3
MaxTris == 2
MaxFrames == 2
MaxGroup == 2

----------------------------------------------------------------------------
(* Arithmetic helpers.                                                     *)

Min(a, b) == IF a < b THEN a ELSE b
Max(a, b) == IF a > b THEN a ELSE b

Zeros(n) == [i \in 1..n |-> 0]

RECURSIVE Flatten(_)
Flatten(ss) == IF ss = <<>> THEN <<>> ELSE Head(ss) \o Flatten(Tail(ss))

RECURSIVE Log2(_)
Log2(n) == IF n < 2 THEN 0 ELSE 1 + Log2(n \div 2)

----------------------------------------------------------------------------
(* Writing a file: little-endian encodings used to build the inputs.       *)

LE16(n) == <<n % 256, (n \div 256) % 256>>

LE32(n) == <<n % 256, (n \div 256) % 256, (n \div 65536) % 256, (n \div 16777216) % 256>>

\* IEEE-754 single precision bit pattern of the integer n, |n| < 2^24.
F32Bits(n) ==
  IF n = 0 THEN 0
  ELSE LET a == IF n < 0 THEN -n ELSE n
           e == Log2(a)
           m == (a - 2^e) * 2^(23 - e)
           mag == (e + 127) * 8388608 + m
       IN IF n < 0 THEN mag - 2147483647 - 1 ELSE mag

F32LE(n) == LE32(F32Bits(n))

----------------------------------------------------------------------------
(* DataView: the fetches behind the cursor's reads.                        *)

\* A fetch of w bytes at o is inside the buffer (otherwise DataView throws
\* a RangeError).
InBuf(d, o, w) == o >= 0 /\ o + w <= Len(d)

getUint8(d, o) == d[o + 1]

getUint16(d, o) == d[o + 1] + 256 * d[o + 2]

getInt16(d, o) == LET u == getUint16(d, o) IN IF u >= 32768 THEN u - 65536 ELSE u

getInt32(d, o) ==
  d[o + 1] + 256 * d[o + 2] + 65536 * d[o + 3]
    + 16777216 * (IF d[o + 4] >= 128 THEN d[o + 4] - 256 ELSE d[o + 4])

\* The unsigned reading; a word with the top bit set is held as its signed alias.
getUint32(d, o) == getInt32(d, o)

\* The value of a single-precision bit pattern.  Exact on the patterns of
\* integers of magnitude below 2^24; no other pattern occurs in the inputs.
F32Value(bits) ==
  LET neg == bits < 0
      mag == IF neg THEN bits + 2147483647 + 1 ELSE bits
      e == mag \div 8388608
      m == mag % 8388608
      sh == 150 - e
      a == IF mag = 0 THEN 0 ELSE (8388608 + m) \div 2^sh
  IN IF neg THEN -a ELSE a

getFloat32(d, o) == F32Value(getInt32(d, o))

\* n consecutive fetches of width w starting at o: how many succeed before
\* one would leave the buffer.
RunCount(d, o, n, w) ==
  IF n <= 0 THEN 0
  ELSE IF o < 0 \/ o > Len(d) THEN 0
  ELSE Min(n, (Len(d) - o) \div w)

----------------------------------------------------------------------------
(* Fixed tables.                                                           *)

anormals ==
  <<
     <<-525731, 0, 850651>>, <<-442863, 238856, 864188>>, <<-295242, 0, 955423>>,
     <<-309017, 500000, 809017>>, <<-162460, 262866, 951056>>, <<0, 0, 1000000>>,
     <<0, 850651, 525731>>, <<-147621, 716567, 681718>>, <<147621, 716567, 681718>>,
     <<0, 525731, 850651>>, <<309017, 500000, 809017>>, <<525731, 0, 850651>>,
     <<295242, 0, 955423>>, <<442863, 238856, 864188>>, <<162460, 262866, 951056>>,
     <<-681718, 147621, 716567>>, <<-809017, 309017, 500000>>, <<-587785, 425325, 688191>>,
     <<-850651, 525731, 0>>, <<-864188, 442863, 238856>>, <<-716567, 681718, 147621>>,
     <<-688191, 587785, 425325>>, <<-500000, 809017, 309017>>, <<-238856, 864188, 442863>>,
     <<-425325, 688191, 587785>>, <<-716567, 681718, -147621>>, <<-500000, 809017, -309017>>,
     <<-525731, 850651, 0>>, <<0, 850651, -525731>>, <<-238856, 864188, -442863>>,
     <<0, 955423, -295242>>, <<-262866, 951056, -162460>>, <<0, 1000000, 0>>,
     <<0, 955423, 295242>>, <<-262866, 951056, 162460>>, <<238856, 864188, 442863>>,
     <<262866, 951056, 162460>>, <<500000, 809017, 309017>>, <<238856, 864188, -442863>>,
     <<262866, 951056, -162460>>, <<500000, 809017, -309017>>, <<850651, 525731, 0>>,
     <<716567, 681718, 147621>>, <<716567, 681718, -147621>>, <<525731, 850651, 0>>,
     <<425325, 688191, 587785>>, <<864188, 442863, 238856>>, <<688191, 587785, 425325>>,
     <<809017, 309017, 500000>>, <<681718, 147621, 716567>>, <<587785, 425325, 688191>>,
     <<955423, 295242, 0>>, <<1000000, 0, 0>>, <<951056, 162460, 262866>>,
     <<850651, -525731, 0>>, <<955423, -295242, 0>>, <<864188, -442863, 238856>>,
     <<951056, -162460, 262866>>, <<809017, -309017, 500000>>, <<681718, -147621, 716567>>,
     <<850651, 0, 525731>>, <<864188, 442863, -238856>>, <<809017, 309017, -500000>>,
     <<951056, 162460, -262866>>, <<525731, 0, -850651>>, <<681718, 147621, -716567>>,
     <<681718, -147621, -716567>>, <<850651, 0, -525731>>, <<809017, -309017, -500000>>,
     <<864188, -442863, -238856>>, <<951056, -162460, -262866>>, <<147621, 716567, -681718>>,
     <<309017, 500000, -809017>>, <<425325, 688191, -587785>>, <<442863, 238856, -864188>>,
     <<587785, 425325, -688191>>, <<688191, 587785, -425325>>, <<-147621, 716567, -681718>>,
     <<-309017, 500000, -809017>>, <<0, 525731, -850651>>, <<-525731, 0, -850651>>,
     <<-442863, 238856, -864188>>, <<-295242, 0, -955423>>, <<-162460, 262866, -951056>>,
     <<0, 0, -1000000>>, <<295242, 0, -955423>>, <<162460, 262866, -951056>>,
     <<-442863, -238856, -864188>>, <<-309017, -500000, -809017>>, <<-162460, -262866, -951056>>,
     <<0, -850651, -525731>>, <<-147621, -716567, -681718>>, <<147621, -716567, -681718>>,
     <<0, -525731, -850651>>, <<309017, -500000, -809017>>, <<442863, -238856, -864188>>,
     <<162460, -262866, -951056>>, <<238856, -864188, -442863>>, <<500000, -809017, -309017>>,
     <<425325, -688191, -587785>>, <<716567, -681718, -147621>>, <<688191, -587785, -425325>>,
     <<587785, -425325, -688191>>, <<0, -955423, -295242>>, <<0, -1000000, 0>>,
     <<262866, -951056, -162460>>, <<0, -850651, 525731>>, <<0, -955423, 295242>>,
     <<238856, -864188, 442863>>, <<262866, -951056, 162460>>, <<500000, -809017, 309017>>,
     <<716567, -681718, 147621>>, <<525731, -850651, 0>>, <<-238856, -864188, -442863>>,
     <<-500000, -809017, -309017>>, <<-262866, -951056, -162460>>, <<-850651, -525731, 0>>,
     <<-716567, -681718, -147621>>, <<-716567, -681718, 147621>>, <<-525731, -850651, 0>>,
     <<-500000, -809017, 309017>>, <<-238856, -864188, 442863>>, <<-262866, -951056, 162460>>,
     <<-864188, -442863, 238856>>, <<-809017, -309017, 500000>>, <<-688191, -587785, 425325>>,
     <<-681718, -147621, 716567>>, <<-442863, -238856, 864188>>, <<-587785, -425325, 688191>>,
     <<-309017, -500000, 809017>>, <<-147621, -716567, 681718>>, <<-425325, -688191, 587785>>,
     <<-162460, -262866, 951056>>, <<442863, -238856, 864188>>, <<162460, -262866, 951056>>,
     <<309017, -500000, 809017>>, <<147621, -716567, 681718>>, <<0, -525731, 850651>>,
     <<425325, -688191, 587785>>, <<587785, -425325, 688191>>, <<688191, -587785, 425325>>,
     <<-955423, 295242, 0>>, <<-951056, 162460, 262866>>, <<-1000000, 0, 0>>,
     <<-850651, 0, 525731>>, <<-955423, -295242, 0>>, <<-951056, -162460, 262866>>,
     <<-864188, 442863, -238856>>, <<-951056, 162460, -262866>>, <<-809017, 309017, -500000>>,
     <<-864188, -442863, -238856>>, <<-951056, -162460, -262866>>, <<-809017, -309017, -500000>>,
     <<-681718, 147621, -716567>>, <<-681718, -147621, -716567>>, <<-850651, 0, -525731>>,
     <<-688191, 587785, -425325>>, <<-587785, 425325, -688191>>, <<-425325, 688191, -587785>>,
     <<-425325, -688191, -587785>>, <<-587785, -425325, -688191>>, <<-688191, -587785, -425325>>
  >>
colorMap ==
  <<
     <<0, 0, 0>>, <<15, 15, 15>>, <<31, 31, 31>>, <<47, 47, 47>>,
     <<63, 63, 63>>, <<75, 75, 75>>, <<91, 91, 91>>, <<107, 107, 107>>,
     <<123, 123, 123>>, <<139, 139, 139>>, <<155, 155, 155>>, <<171, 171, 171>>,
     <<187, 187, 187>>, <<203, 203, 203>>, <<219, 219, 219>>, <<235, 235, 235>>,
     <<15, 11, 7>>, <<23, 15, 11>>, <<31, 23, 11>>, <<39, 27, 15>>,
     <<47, 35, 19>>, <<55, 43, 23>>, <<63, 47, 23>>, <<75, 55, 27>>,
     <<83, 59, 27>>, <<91, 67, 31>>, <<99, 75, 31>>, <<107, 83, 31>>,
     <<115, 87, 31>>, <<123, 95, 35>>, <<131, 103, 35>>, <<143, 111, 35>>,
     <<11, 11, 15>>, <<19, 19, 27>>, <<27, 27, 39>>, <<39, 39, 51>>,
     <<47, 47, 63>>, <<55, 55, 75>>, <<63, 63, 87>>, <<71, 71, 103>>,
     <<79, 79, 115>>, <<91, 91, 127>>, <<99, 99, 139>>, <<107, 107, 151>>,
     <<115, 115, 163>>, <<123, 123, 175>>, <<131, 131, 187>>, <<139, 139, 203>>,
     <<0, 0, 0>>, <<7, 7, 0>>, <<11, 11, 0>>, <<19, 19, 0>>,
     <<27, 27, 0>>, <<35, 35, 0>>, <<43, 43, 7>>, <<47, 47, 7>>,
     <<55, 55, 7>>, <<63, 63, 7>>, <<71, 71, 7>>, <<75, 75, 11>>,
     <<83, 83, 11>>, <<91, 91, 11>>, <<99, 99, 11>>, <<107, 107, 15>>,
     <<7, 0, 0>>, <<15, 0, 0>>, <<23, 0, 0>>, <<31, 0, 0>>,
     <<39, 0, 0>>, <<47, 0, 0>>, <<55, 0, 0>>, <<63, 0, 0>>,
     <<71, 0, 0>>, <<79, 0, 0>>, <<87, 0, 0>>, <<95, 0, 0>>,
     <<103, 0, 0>>, <<111, 0, 0>>, <<119, 0, 0>>, <<127, 0, 0>>,
     <<19, 19, 0>>, <<27, 27, 0>>, <<35, 35, 0>>, <<47, 43, 0>>,
     <<55, 47, 0>>, <<67, 55, 0>>, <<75, 59, 7>>, <<87, 67, 7>>,
     <<95, 71, 7>>, <<107, 75, 11>>, <<119, 83, 15>>, <<131, 87, 19>>,
     <<139, 91, 19>>, <<151, 95, 27>>, <<163, 99, 31>>, <<175, 103, 35>>,
     <<35, 19, 7>>, <<47, 23, 11>>, <<59, 31, 15>>, <<75, 35, 19>>,
     <<87, 43, 23>>, <<99, 47, 31>>, <<115, 55, 35>>, <<127, 59, 43>>,
     <<143, 67, 51>>, <<159, 79, 51>>, <<175, 99, 47>>, <<191, 119, 47>>,
     <<207, 143, 43>>, <<223, 171, 39>>, <<239, 203, 31>>, <<255, 243, 27>>,
     <<11, 7, 0>>, <<27, 19, 0>>, <<43, 35, 15>>, <<55, 43, 19>>,
     <<71, 51, 27>>, <<83, 55, 35>>, <<99, 63, 43>>, <<111, 71, 51>>,
     <<127, 83, 63>>, <<139, 95, 71>>, <<155, 107, 83>>, <<167, 123, 95>>,
     <<183, 135, 107>>, <<195, 147, 123>>, <<211, 163, 139>>, <<227, 179, 151>>,
     <<171, 139, 163>>, <<159, 127, 151>>, <<147, 115, 135>>, <<139, 103, 123>>,
     <<127, 91, 111>>, <<119, 83, 99>>, <<107, 75, 87>>, <<95, 63, 75>>,
     <<87, 55, 67>>, <<75, 47, 55>>, <<67, 39, 47>>, <<55, 31, 35>>,
     <<43, 23, 27>>, <<35, 19, 19>>, <<23, 11, 11>>, <<15, 7, 7>>,
     <<187, 115, 159>>, <<175, 107, 143>>, <<163, 95, 131>>, <<151, 87, 119>>,
     <<139, 79, 107>>, <<127, 75, 95>>, <<115, 67, 83>>, <<107, 59, 75>>,
     <<95, 51, 63>>, <<83, 43, 55>>, <<71, 35, 43>>, <<59, 31, 35>>,
     <<47, 23, 27>>, <<35, 19, 19>>, <<23, 11, 11>>, <<15, 7, 7>>,
     <<219, 195, 187>>, <<203, 179, 167>>, <<191, 163, 155>>, <<175, 151, 139>>,
     <<163, 135, 123>>, <<151, 123, 111>>, <<135, 111, 95>>, <<123, 99, 83>>,
     <<107, 87, 71>>, <<95, 75, 59>>, <<83, 63, 51>>, <<67, 51, 39>>,
     <<55, 43, 31>>, <<39, 31, 23>>, <<27, 19, 15>>, <<15, 11, 7>>,
     <<111, 131, 123>>, <<103, 123, 111>>, <<95, 115, 103>>, <<87, 107, 95>>,
     <<79, 99, 87>>, <<71, 91, 79>>, <<63, 83, 71>>, <<55, 75, 63>>,
     <<47, 67, 55>>, <<43, 59, 47>>, <<35, 51, 39>>, <<31, 43, 31>>,
     <<23, 35, 23>>, <<15, 27, 19>>, <<11, 19, 11>>, <<7, 11, 7>>,
     <<255, 243, 27>>, <<239, 223, 23>>, <<219, 203, 19>>, <<203, 183, 15>>,
     <<187, 167, 15>>, <<171, 151, 11>>, <<155, 131, 7>>, <<139, 115, 7>>,
     <<123, 99, 7>>, <<107, 83, 0>>, <<91, 71, 0>>, <<75, 55, 0>>,
     <<59, 43, 0>>, <<43, 31, 0>>, <<27, 15, 0>>, <<11, 7, 0>>,
     <<0, 0, 255>>, <<11, 11, 239>>, <<19, 19, 223>>, <<27, 27, 207>>,
     <<35, 35, 191>>, <<43, 43, 175>>, <<47, 47, 159>>, <<47, 47, 143>>,
     <<47, 47, 127>>, <<47, 47, 111>>, <<47, 47, 95>>, <<43, 43, 79>>,
     <<35, 35, 63>>, <<27, 27, 47>>, <<19, 19, 31>>, <<11, 11, 15>>,
     <<43, 0, 0>>, <<59, 0, 0>>, <<75, 7, 0>>, <<95, 7, 0>>,
     <<111, 15, 0>>, <<127, 23, 7>>, <<147, 31, 7>>, <<163, 39, 11>>,
     <<183, 51, 15>>, <<195, 75, 27>>, <<207, 99, 43>>, <<219, 127, 59>>,
     <<227, 151, 79>>, <<231, 171, 95>>, <<239, 191, 119>>, <<247, 211, 139>>,
     <<167, 123, 59>>, <<183, 155, 55>>, <<199, 195, 55>>, <<231, 227, 87>>,
     <<127, 191, 255>>, <<171, 231, 255>>, <<215, 255, 255>>, <<103, 0, 0>>,
     <<139, 0, 0>>, <<179, 0, 0>>, <<215, 0, 0>>, <<255, 0, 0>>,
     <<255, 243, 147>>, <<255, 247, 199>>, <<255, 255, 255>>, <<159, 91, 83>>
  >>
colorMapBSP ==
  <<
     <<0, 0, 0>>, <<15, 15, 15>>, <<31, 31, 31>>, <<47, 47, 47>>,
     <<63, 63, 63>>, <<75, 75, 75>>, <<91, 91, 91>>, <<107, 107, 107>>,
     <<123, 123, 123>>, <<139, 139, 139>>, <<155, 155, 155>>, <<171, 171, 171>>,
     <<187, 187, 187>>, <<203, 203, 203>>, <<219, 219, 219>>, <<235, 235, 235>>,
     <<15, 11, 7>>, <<23, 15, 11>>, <<31, 23, 11>>, <<39, 27, 15>>,
     <<47, 35, 19>>, <<55, 43, 23>>, <<63, 47, 23>>, <<75, 55, 27>>,
     <<83, 59, 27>>, <<91, 67, 31>>, <<99, 75, 31>>, <<107, 83, 31>>,
     <<115, 87, 31>>, <<123, 95, 35>>, <<131, 103, 35>>, <<143, 111, 35>>,
     <<11, 11, 15>>, <<19, 19, 27>>, <<27, 27, 39>>, <<39, 39, 51>>,
     <<47, 47, 63>>, <<55, 55, 75>>, <<63, 63, 87>>, <<71, 71, 103>>,
     <<79, 79, 115>>, <<91, 91, 127>>, <<99, 99, 139>>, <<107, 107, 151>>,
     <<115, 115, 163>>, <<123, 123, 175>>, <<131, 131, 187>>, <<139, 139, 203>>,
     <<0, 0, 0>>, <<7, 7, 0>>, <<11, 11, 0>>, <<19, 19, 0>>,
     <<27, 27, 0>>, <<35, 35, 0>>, <<43, 43, 7>>, <<47, 47, 7>>,
     <<55, 55, 7>>, <<63, 63, 7>>, <<71, 71, 7>>, <<75, 75, 11>>,
     <<83, 83, 11>>, <<91, 91, 11>>, <<99, 99, 11>>, <<107, 107, 15>>,
     <<7, 0, 0>>, <<15, 0, 0>>, <<23, 0, 0>>, <<31, 0, 0>>,
     <<39, 0, 0>>, <<47, 0, 0>>, <<55, 0, 0>>, <<63, 0, 0>>,
     <<71, 0, 0>>, <<79, 0, 0>>, <<87, 0, 0>>, <<95, 0, 0>>,
     <<103, 0, 0>>, <<111, 0, 0>>, <<119, 0, 0>>, <<127, 0, 0>>,
     <<19, 19, 0>>, <<27, 27, 0>>, <<35, 35, 0>>, <<47, 43, 0>>,
     <<55, 47, 0>>, <<67, 55, 0>>, <<75, 59, 7>>, <<87, 67, 7>>,
     <<95, 71, 7>>, <<107, 75, 11>>, <<119, 83, 15>>, <<131, 87, 19>>,
     <<139, 91, 19>>, <<151, 95, 27>>, <<163, 99, 31>>, <<175, 103, 35>>,
     <<35, 19, 7>>, <<47, 23, 11>>, <<59, 31, 15>>, <<75, 35, 19>>,
     <<87, 43, 23>>, <<99, 47, 31>>, <<115, 55, 35>>, <<127, 59, 43>>,
     <<143, 67, 51>>, <<159, 79, 51>>, <<175, 99, 47>>, <<191, 119, 47>>,
     <<207, 143, 43>>, <<223, 171, 39>>, <<239, 203, 31>>, <<255, 243, 27>>,
     <<11, 7, 0>>, <<27, 19, 0>>, <<43, 35, 15>>, <<55, 43, 19>>,
     <<71, 51, 27>>, <<83, 55, 35>>, <<99, 63, 43>>, <<111, 71, 51>>,
     <<127, 83, 63>>, <<139, 95, 71>>, <<155, 107, 83>>, <<167, 123, 95>>,
     <<183, 135, 107>>, <<195, 147, 123>>, <<211, 163, 139>>, <<227, 179, 151>>,
     <<171, 139, 163>>, <<159, 127, 151>>, <<147, 115, 135>>, <<139, 103, 123>>,
     <<127, 91, 111>>, <<119, 83, 99>>, <<107, 75, 87>>, <<95, 63, 75>>,
     <<87, 55, 67>>, <<75, 47, 55>>, <<67, 39, 47>>, <<55, 31, 35>>,
     <<43, 23, 27>>, <<35, 19, 19>>, <<23, 11, 11>>, <<15, 7, 7>>,
     <<187, 115, 159>>, <<175, 107, 143>>, <<163, 95, 131>>, <<151, 87, 119>>,
     <<139, 79, 107>>, <<127, 75, 95>>, <<115, 67, 83>>, <<107, 59, 75>>,
     <<95, 51, 63>>, <<83, 43, 55>>, <<71, 35, 43>>, <<59, 31, 35>>,
     <<47, 23, 27>>, <<35, 19, 19>>, <<23, 11, 11>>, <<15, 7, 7>>,
     <<219, 195, 187>>, <<203, 179, 167>>, <<191, 163, 155>>, <<175, 151, 139>>,
     <<163, 135, 123>>, <<151, 123, 111>>, <<135, 111, 95>>, <<123, 99, 83>>,
     <<107, 87, 71>>, <<95, 75, 59>>, <<83, 63, 51>>, <<67, 51, 39>>,
     <<55, 43, 31>>, <<39, 31, 23>>, <<27, 19, 15>>, <<15, 11, 7>>,
     <<111, 131, 123>>, <<103, 123, 111>>, <<95, 115, 103>>, <<87, 107, 95>>,
     <<79, 99, 87>>, <<71, 91, 79>>, <<63, 83, 71>>, <<55, 75, 63>>,
     <<47, 67, 55>>, <<43, 59, 47>>, <<35, 51, 39>>, <<31, 43, 31>>,
     <<23, 35, 23>>, <<15, 27, 19>>, <<11, 19, 11>>, <<7, 11, 7>>,
     <<255, 243, 27>>, <<239, 223, 23>>, <<219, 203, 19>>, <<203, 183, 15>>,
     <<187, 167, 15>>, <<171, 151, 11>>, <<155, 131, 7>>, <<139, 115, 7>>,
     <<123, 99, 7>>, <<107, 83, 0>>, <<91, 71, 0>>, <<75, 55, 0>>,
     <<59, 43, 0>>, <<43, 31, 0>>, <<27, 15, 0>>, <<11, 7, 0>>,
     <<0, 0, 255>>, <<11, 11, 239>>, <<19, 19, 223>>, <<27, 27, 207>>,
     <<35, 35, 191>>, <<43, 43, 175>>, <<47, 47, 159>>, <<47, 47, 143>>,
     <<47, 47, 127>>, <<47, 47, 111>>, <<47, 47, 95>>, <<43, 43, 79>>,
     <<35, 35, 63>>, <<27, 27, 47>>, <<19, 19, 31>>, <<11, 11, 15>>,
     <<43, 0, 0>>, <<59, 0, 0>>, <<75, 7, 0>>, <<95, 7, 0>>,
     <<111, 15, 0>>, <<127, 23, 7>>, <<147, 31, 7>>, <<163, 39, 11>>,
     <<183, 51, 15>>, <<195, 75, 27>>, <<207, 99, 43>>, <<219, 127, 59>>,
     <<227, 151, 79>>, <<231, 171, 95>>, <<239, 191, 119>>, <<247, 211, 139>>,
     <<167, 123, 59>>, <<183, 155, 55>>, <<199, 195, 55>>, <<231, 227, 87>>,
     <<127, 191, 255>>, <<171, 231, 255>>, <<215, 255, 255>>, <<103, 0, 0>>,
     <<139, 0, 0>>, <<179, 0, 0>>, <<215, 0, 0>>, <<255, 0, 0>>,
     <<255, 243, 147>>, <<255, 247, 199>>, <<255, 255, 255>>, <<159, 91, 83>>
  >>


----------------------------------------------------------------------------
(* Model files.  A description d of a model file:                          *)
(*   magic, version, scale, translate, skinWidth, skinHeight               *)
(*   skins   sequence of [group, seed]                                     *)
(*   verts   sequence of [onSeam, s, t]       (the shared UV table)        *)
(*   tris    sequence of [front, idx]         (idx a triple of indices)    *)
(*   frames  sequence of [type, n, seed]      (type 0: one frame;          *)
(*           otherwise a group of n frames)                                *)
(*   cut     number of bytes missing at the end of the file                *)
(*   nullMeshes  importMesh is called with meshes = null (as load does)    *)

MDL_MAGIC == 1330660425
MDL_VERSION == 6

SkinPixel(seed, i) == (seed + 51 * i) % 256

SkinBytes(d, k) ==
  LE32(d.skins[k].group)
    \o [i \in 1..(d.skinWidth * d.skinHeight) |-> SkinPixel(d.skins[k].seed, i - 1)]

UVBytes(v) == LE32(v.onSeam) \o LE32(v.s) \o LE32(v.t)

TriBytes(t) == LE32(t.front) \o LE32(t.idx[1]) \o LE32(t.idx[2]) \o LE32(t.idx[3])

\* One trivertx_t of frame `seed`: three packed coordinates and a normal index.
VertexBytes(seed, i) ==
  <<(10 * seed + 3 * i + 1) % 256, (10 * seed + 3 * i + 2) % 256,
    (10 * seed + 3 * i + 3) % 256, (7 * seed + i) % 256>>

\* A single frame: bboxmin, bboxmax, name[16], then one trivertx_t per vertex.
SimpleFrameBytes(seed, nv) ==
  <<seed % 2, 0, 0, 0>> \o <<2, 0, 0, 0>> \o <<65 + seed>> \o Zeros(15)
    \o Flatten([i \in 1..nv |-> VertexBytes(seed, i - 1)])

\* A frame record: the type flag, then a single frame or a group (count,
\* min, max, one float interval per frame, the frames).
FrameBytes(f, nv) ==
  IF f.type = 0
  THEN LE32(0) \o SimpleFrameBytes(f.seed, nv)
  ELSE LE32(f.type) \o LE32(f.n) \o <<0, 0, 0, 0>> \o <<2, 0, 0, 0>>
         \o Flatten([j \in 1..f.n |-> F32LE(j)])
         \o Flatten([j \in 1..f.n |-> SimpleFrameBytes(f.seed + j - 1, nv)])

MdlBytes(d) ==
  LE32(d.magic) \o LE32(d.version)
    \o F32LE(d.scale[1]) \o F32LE(d.scale[2]) \o F32LE(d.scale[3])
    \o F32LE(d.translate[1]) \o F32LE(d.translate[2]) \o F32LE(d.translate[3])
    \o Zeros(16)
    \o LE32(Len(d.skins)) \o LE32(d.skinWidth) \o LE32(d.skinHeight)
    \o LE32(Len(d.verts)) \o LE32(Len(d.tris)) \o LE32(Len(d.frames))
    \o Zeros(12)
    \o Flatten([k \in 1..Len(d.skins) |-> SkinBytes(d, k)])
    \o Flatten([i \in 1..Len(d.verts) |-> UVBytes(d.verts[i])])
    \o Flatten([i \in 1..Len(d.tris) |-> TriBytes(d.tris[i])])
    \o Flatten([i \in 1..Len(d.frames) |-> FrameBytes(d.frames[i], Len(d.verts))])

MdlFile(d) == LET b == MdlBytes(d) IN SubSeq(b, 1, Len(b) - d.cut)

\* Sequences over S of length lo..hi.
SeqsOf(S, lo, hi) == UNION {[1..n -> S] : n \in lo..hi}

DefaultVerts == <<[onSeam |-> 0, s |-> 1, t |-> 2], [onSeam |-> 1, s |-> 3, t |-> 1],
                  [onSeam |-> 0, s |-> 0, t |-> 0]>>

MdlDefault ==
  [magic |-> MDL_MAGIC, version |-> MDL_VERSION,
   scale |-> <<2, 1, 3>>, translate |-> <<-5, 0, 4>>,
   skinWidth |-> 2, skinHeight |-> 1,
   skins |-> <<[group |-> 0, seed |-> 0]>>,
   verts |-> DefaultVerts,
   tris |-> <<[front |-> 1, idx |-> <<0, 1, 2>>]>>,
   frames |-> <<[type |-> 0, n |-> 0, seed |-> 1]>>,
   cut |-> 0, nullMeshes |-> FALSE]

\* Files that differ in the two leading words.
MdlHeaderInputs ==
  {[MdlDefault EXCEPT !.magic = m, !.version = v] :
     m \in {MDL_MAGIC, MDL_MAGIC + 1, 29, 0}, v \in {MDL_VERSION, 5, 7, 0}}

\* Files that differ in their skins.
MdlSkinInputs ==
  {[MdlDefault EXCEPT !.skins = sk, !.skinWidth = wh[1], !.skinHeight = wh[2]] :
     sk \in SeqsOf([group : {0, 1}, seed : {0, 255}], 0, MaxSkins),
     wh \in {<<2, 1>>, <<2, 2>>}}

\* Index triples over nv vertices.
TriIdx(nv) == {<<0, 1 % nv, 2 % nv>>, <<nv - 1, 0, 1 % nv>>}

\* Files that differ in the UV table and the triangles.
MdlGeometryInputs ==
  UNION {
    {[MdlDefault EXCEPT !.verts = [i \in 1..nv |-> [DefaultVerts[((i - 1) % 3) + 1]
                                                     EXCEPT !.onSeam = seam[i]]],
                        !.tris = tr, !.skinWidth = 4] :
       seam \in [1..nv -> {0, 1}],
       tr \in SeqsOf([front : {0, 1}, idx : TriIdx(nv)], 1, MaxTris)} :
    nv \in 1..MaxVerts}

\* Files that differ in their frame records.
MdlFrameInputs ==
  {[MdlDefault EXCEPT !.frames = fr] :
     fr \in SeqsOf({[type |-> 0, n |-> 0, seed |-> sd] : sd \in {1, 2}}
                     \cup {[type |-> 1, n |-> k, seed |-> 3] : k \in 1..MaxGroup},
                   0, MaxFrames)}

\* A file with two single frames, and the same file with its last c bytes
\* missing, for every c.
MdlCutBase ==
  [MdlDefault EXCEPT !.frames = <<[type |-> 0, n |-> 0, seed |-> 1],
                                  [type |-> 0, n |-> 0, seed |-> 2]>>]

MdlCutInputs == {[MdlCutBase EXCEPT !.cut = c] : c \in 1..Len(MdlBytes(MdlCutBase))}

\* Files whose triangles hold vertex indices outside the 3-entry vertex
\* table: one past the end, far past the end, negative.
MdlBadIndexInputs ==
  {[MdlDefault EXCEPT !.tris = tr] :
     tr \in SeqsOf([front : {0, 1},
                    idx : {<<0, 1, 2>>, <<0, 1, 3>>, <<2, 100, 1>>, <<-1, 0, 1>>}],
                   1, MaxTris)}

\* Files whose single frame holds normal index bytes around the end of the
\* normal table: seed 22 gives bytes 154.., seed 23 bytes 161, 162, 163,
\* seed 36 bytes 252...
MdlNormalInputs ==
  UNION {
    {[MdlDefault EXCEPT !.verts = SubSeq(DefaultVerts, 1, nv),
                        !.tris = <<[front |-> 1, idx |-> <<0, 1 % nv, 2 % nv>>]>>,
                        !.frames = <<[type |-> 0, n |-> 0, seed |-> sd]>>] :
       sd \in {22, 23, 36}} :
    nv \in 1..Min(3, MaxVerts)}

\* Files handed to load, which passes null for the list of meshes.
MdlLoadInputs ==
  {[d EXCEPT !.nullMeshes = TRUE] : d \in MdlHeaderInputs \cup {MdlCutBase}}

MdlInputs ==
  MdlHeaderInputs \cup MdlSkinInputs \cup MdlGeometryInputs \cup MdlFrameInputs
    \cup MdlCutInputs \cup MdlBadIndexInputs \cup MdlNormalInputs \cup MdlLoadInputs

----------------------------------------------------------------------------
(* Level files.  A description d of a level file:                          *)
(*   magic                                                                 *)
(*   verts     sequence of <<x, y, z>>                                     *)
(*   edges     sequence of <<v0, v1>>                                      *)
(*   texinfos  sequence of [s, t, miptex, flags]  (s, t four numbers each) *)
(*   textures  sequence of [width, height, seed]                           *)
(*   ledges    sequence of signed edge numbers                             *)
(*   planes    sequence of [normal, distance, type]                        *)
(*   faces     sequence of [ledgeIndex, numLedges, texInfoIndex]           *)
(*   slack     [slot, bytes]: the directory pair of that slot states a     *)
(*             byte length that many bytes more than the section holds     *)
(*   cut, nullMeshes   as for model files                                  *)
(* The sections follow the 124-byte header in the order vertices, edges,   *)
(* texinfo, textures, edge list, planes, faces.                            *)

BSP_VERSION == 29

MaxFaces == 2
MaxTextures == 3

BspVertexBytes(v) == F32LE(v[1]) \o F32LE(v[2]) \o F32LE(v[3])

BspEdgeBytes(e) == LE16(e[1]) \o LE16(e[2])

BspTexinfoBytes(t) ==
  F32LE(t.s[1]) \o F32LE(t.s[2]) \o F32LE(t.s[3]) \o F32LE(t.s[4])
    \o F32LE(t.t[1]) \o F32LE(t.t[2]) \o F32LE(t.t[3]) \o F32LE(t.t[4])
    \o LE32(t.miptex) \o LE32(t.flags)

\* A texture record: name[16], width, height, four mip offsets counted from
\* the start of the record, then the full-size image.
BspTextureBytes(t, k) ==
  LET n == t.width * t.height
  IN <<116, 48 + k>> \o Zeros(14) \o LE32(t.width) \o LE32(t.height)
       \o LE32(40) \o LE32(40 + n) \o LE32(40 + n) \o LE32(40 + n)
       \o [i \in 1..n |-> SkinPixel(t.seed, i - 1)]

RECURSIVE BspTextureStart(_, _)
BspTextureStart(ts, k) ==
  IF k = 1 THEN 4 + 4 * Len(ts)
  ELSE BspTextureStart(ts, k - 1) + 40 + ts[k - 1].width * ts[k - 1].height

\* The texture section: count, one offset per record (from the section
\* start), the records.
BspMiptexBytes(ts) ==
  LE32(Len(ts))
    \o Flatten([k \in 1..Len(ts) |-> LE32(BspTextureStart(ts, k))])
    \o Flatten([k \in 1..Len(ts) |-> BspTextureBytes(ts[k], k)])

BspPlaneBytes(q) ==
  F32LE(q.normal[1]) \o F32LE(q.normal[2]) \o F32LE(q.normal[3]) \o F32LE(q.distance)
    \o LE32(q.type)

BspFaceBytes(f) ==
  LE16(0) \o LE16(0) \o LE32(f.ledgeIndex) \o LE16(f.numLedges) \o LE16(f.texInfoIndex)
    \o <<0, 255, 0, 0>> \o LE32(-1)

\* The sections of d in file order, as <<directory slot, bytes>>.  Slots
\* count the 15 directory pairs from 0.
BspSections(d) ==
  <<<<3, Flatten([i \in 1..Len(d.verts) |-> BspVertexBytes(d.verts[i])])>>,
    <<12, Flatten([i \in 1..Len(d.edges) |-> BspEdgeBytes(d.edges[i])])>>,
    <<6, Flatten([i \in 1..Len(d.texinfos) |-> BspTexinfoBytes(d.texinfos[i])])>>,
    <<2, BspMiptexBytes(d.textures)>>,
    <<13, Flatten([i \in 1..Len(d.ledges) |-> LE32(d.ledges[i])])>>,
    <<1, Flatten([i \in 1..Len(d.planes) |-> BspPlaneBytes(d.planes[i])])>>,
    <<7, Flatten([i \in 1..Len(d.faces) |-> BspFaceBytes(d.faces[i])])>>>>

BSP_HEADER_SIZE == 124

RECURSIVE BspSectionStart(_, _)
BspSectionStart(secs, k) ==
  IF k = 1 THEN BSP_HEADER_SIZE ELSE BspSectionStart(secs, k - 1) + Len(secs[k - 1][2])

\* The directory pair of slot n: the section stored there, or a pair no
\* section of the file has.
BspDirectory(secs, n, slack) ==
  IF \E k \in 1..Len(secs) : secs[k][1] = n
    THEN LET k == CHOOSE k \in 1..Len(secs) : secs[k][1] = n
         IN LE32(BspSectionStart(secs, k))
              \o LE32(Len(secs[k][2]) + (IF slack.slot = n THEN slack.bytes ELSE 0))
    ELSE LE32(2000 + n) \o LE32(1000 + 60 * n)

BspBytes(d) ==
  LET secs == BspSections(d)
  IN LE32(d.magic)
       \o Flatten([n \in 1..15 |-> BspDirectory(secs, n - 1, d.slack)])
       \o Flatten([k \in 1..Len(secs) |-> secs[k][2]])

BspFile(d) == LET b == BspBytes(d) IN SubSeq(b, 1, Len(b) - d.cut)

\* Five vertices; edges 0..7; three textures' worth of texinfo (texinfo 0
\* and 2 use texture 0, texinfo 1 uses texture 1); four closed loops in the
\* edge list: a quad at 0, a triangle walked backwards at 4, a pentagon at
\* 7 and a triangle through edge 0 at 12.
BspDefault ==
  [magic |-> BSP_VERSION,
   verts |-> <<<<0, 0, 0>>, <<10, 0, 0>>, <<10, 20, 0>>, <<0, 20, 5>>, <<-10, 10, 0>>>>,
   edges |-> <<<<0, 1>>, <<0, 1>>, <<1, 2>>, <<2, 3>>, <<3, 0>>, <<0, 2>>, <<3, 4>>,
               <<4, 0>>>>,
   texinfos |-> <<[s |-> <<1, 0, 0, 0>>, t |-> <<0, 1, 0, 2>>, miptex |-> 0, flags |-> 0],
                  [s |-> <<0, 1, 0, 1>>, t |-> <<0, 0, 1, 0>>, miptex |-> 1, flags |-> 0],
                  [s |-> <<1, 1, 0, 0>>, t |-> <<0, 0, 1, 3>>, miptex |-> 0, flags |-> 1]>>,
   textures |-> <<[width |-> 2, height |-> 1, seed |-> 0],
                  [width |-> 2, height |-> 2, seed |-> 255]>>,
   ledges |-> <<1, 2, 3, 4, -4, -3, -5, 1, 2, 3, 6, 7, 0, 2, -5>>,
   planes |-> <<[normal |-> <<0, 0, 1>>, distance |-> 0, type |-> 2]>>,
   faces |-> <<[ledgeIndex |-> 0, numLedges |-> 4, texInfoIndex |-> 0]>>,
   slack |-> [slot |-> 0, bytes |-> 0],
   cut |-> 0, nullMeshes |-> FALSE]

\* Files that differ in the leading word.
BspMagicInputs ==
  {[BspDefault EXCEPT !.magic = m] : m \in {BSP_VERSION, 30, 28, 0, 844124994, MDL_MAGIC}}

BspLoops == {<<0, 4>>, <<4, 3>>, <<7, 5>>, <<12, 3>>}

\* Files that differ in their faces.
BspFaceInputs ==
  {[BspDefault EXCEPT !.faces = fs] :
     fs \in SeqsOf({[ledgeIndex |-> l[1], numLedges |-> l[2], texInfoIndex |-> x] :
                      l \in BspLoops, x \in 0..2}, 1, MaxFaces)}

\* The default level with a ninth edge between vertices the file does not
\* have, and six more edge-list entries (15..20): 3, 8, -4, 1, 20, 2.
BspBadBase ==
  [BspDefault EXCEPT !.edges = Append(@, <<9, 9>>),
                     !.ledges = @ \o <<3, 8, -4, 1, 20, 2>>]

\* Edge-list ranges of faces that break a table bound: a triangle through
\* edge 8 (vertex 9), a triangle through entry 20 (no such edge), a range
\* running past the end of the list, a range starting before it, and a
\* two-entry range through edge 8.
BspBadLoops == {<<15, 3>>, <<18, 3>>, <<20, 3>>, <<-1, 3>>, <<16, 2>>}

BspBadFaceInputs ==
  {[BspBadBase EXCEPT !.faces = fs] :
     fs \in SeqsOf({[ledgeIndex |-> l[1], numLedges |-> l[2], texInfoIndex |-> 0] :
                      l \in BspBadLoops \cup {<<0, 4>>}}, 1, MaxFaces)}

\* Files that differ in their texture table.
BspTextureInputs ==
  {[BspDefault EXCEPT !.textures = ts] :
     ts \in SeqsOf([width : {2}, height : {1, 2}, seed : {0, 255}], 0, MaxTextures)}

\* Files handed to load, which passes null for the list of meshes.
BspLoadInputs == {[d EXCEPT !.nullMeshes = TRUE] : d \in BspMagicInputs}

\* Files whose directory states, for the vertices (slot 3), the edges (12),
\* the edge list (13) or the faces (7), a byte length that is not a multiple
\* of the record size, or a negative one.
BspSlackInputs ==
  {[BspDefault EXCEPT !.slack = [slot |-> n, bytes |-> k]] :
     n \in {3, 12, 13, 7}, k \in {2, -2, -64}}

BspInputs ==
  BspMagicInputs \cup BspFaceInputs \cup BspBadFaceInputs \cup BspTextureInputs
    \cup BspLoadInputs \cup BspSlackInputs

----------------------------------------------------------------------------
(* MDLFileLoader.importMesh, step by step.  Each Mdl... operator below is  *)
(* the code of one stretch of importMesh run on buffer d from offset o; it *)
(* yields res ("ok", "false", or the name of the exception thrown), the    *)
(* cursor offset off at that point, hi (the end of the last byte range     *)
(* fetched, 0 if none) and the values decoded.                             *)

NoHeader ==
  [scale |-> <<0, 0, 0>>, translate |-> <<0, 0, 0>>, numSkins |-> 0, skinWidth |-> 0,
   skinHeight |-> 0, numVertices |-> 0, numTriangles |-> 0, numFrames |-> 0]

MdlMagicOk(m) == m = MDL_MAGIC

MdlVersionOkAtLeast(v) == v >= MDL_VERSION

MdlVersionOk(v) == v = MDL_VERSION

\* End of the last fetched range after k fetches of width w from o.
RunHi(o, k, w) == IF k > 0 THEN o + k * w ELSE 0

MdlReadHeader(d) ==
  IF ~InBuf(d, 0, 4) THEN [res |-> "RangeError", off |-> 0, hi |-> 0, header |-> NoHeader]
  ELSE IF ~MdlMagicOk(getInt32(d, 0))
    THEN [res |-> "false", off |-> 4, hi |-> 4, header |-> NoHeader]
  ELSE IF ~InBuf(d, 4, 4) THEN [res |-> "RangeError", off |-> 4, hi |-> 4, header |-> NoHeader]
  ELSE IF ~MdlVersionOk(getInt32(d, 4))
    THEN [res |-> "false", off |-> 8, hi |-> 8, header |-> NoHeader]
  ELSE
    LET k1 == RunCount(d, 8, 6, 4)
        k2 == RunCount(d, 48, 6, 4)
    IN IF k1 < 6
         THEN [res |-> "RangeError", off |-> 8 + 4 * k1, hi |-> 8 + 4 * k1, header |-> NoHeader]
       ELSE IF k2 < 6
         THEN [res |-> "RangeError", off |-> 48 + 4 * k2,
               hi |-> Max(32, RunHi(48, k2, 4)), header |-> NoHeader]
       ELSE [res |-> "ok", off |-> 84, hi |-> 72,
             header |->
               [scale |-> <<getFloat32(d, 8), getFloat32(d, 12), getFloat32(d, 16)>>,
                translate |-> <<getFloat32(d, 20), getFloat32(d, 24), getFloat32(d, 28)>>,
                numSkins |-> getInt32(d, 48), skinWidth |-> getInt32(d, 52),
                skinHeight |-> getInt32(d, 56), numVertices |-> getInt32(d, 60),
                numTriangles |-> getInt32(d, 64), numFrames |-> getInt32(d, 68)]]

\* The index bytes themselves as grey levels, without the table.
MdlPaletteRaw(d, o, n) ==
  Flatten([i \in 1..n |-> <<getUint8(d, o + i - 1), getUint8(d, o + i - 1),
                            getUint8(d, o + i - 1)>>])

\* Palette decoding of the n index bytes at o.
MdlPalette(d, o, n) ==
  Flatten([i \in 1..n |-> colorMap[getUint8(d, o + i - 1) + 1]])

GroupSkinAbove(group) == group > 1

GroupSkin(group) == group # 0

\* One iteration of the skin loop.
MdlReadSkin(d, o, h) ==
  LET npix == h.skinWidth * h.skinHeight
      k == RunCount(d, o + 4, npix, 1)
      none == [width |-> 0, height |-> 0, data |-> <<>>]
  IN IF ~InBuf(d, o, 4) THEN [res |-> "RangeError", off |-> o, hi |-> 0, texture |-> none]
     ELSE IF GroupSkin(getInt32(d, o))
       THEN [res |-> "false", off |-> o + 4, hi |-> o + 4, texture |-> none]
     ELSE IF 3 * npix < 0
       THEN [res |-> "RangeError", off |-> o + 4, hi |-> o + 4, texture |-> none]
     ELSE IF k < npix
       THEN [res |-> "RangeError", off |-> o + 4 + k, hi |-> o + 4 + k, texture |-> none]
     ELSE [res |-> "ok", off |-> o + 4 + npix, hi |-> o + 4 + npix,
           texture |-> [width |-> h.skinWidth, height |-> h.skinHeight,
                        data |-> MdlPalette(d, o + 4, npix)]]

\* The shared UV table: onSeam, s, t per vertex.
MdlReadUVs(d, o, h) ==
  LET nv == h.numVertices
      k == RunCount(d, o, 3 * nv, 4)
  IN IF nv < 0 THEN [res |-> "RangeError", off |-> o, hi |-> 0, onSeam |-> <<>>, uvs |-> <<>>]
     ELSE IF k < 3 * nv
       THEN [res |-> "RangeError", off |-> o + 4 * k, hi |-> RunHi(o, k, 4),
             onSeam |-> <<>>, uvs |-> <<>>]
     ELSE [res |-> "ok", off |-> o + 12 * nv, hi |-> RunHi(o, k, 4),
           onSeam |-> [i \in 1..nv |-> getInt32(d, o + 12 * (i - 1))],
           uvs |-> Flatten([i \in 1..nv |-> <<getInt32(d, o + 12 * (i - 1) + 4),
                                              getInt32(d, o + 12 * (i - 1) + 8)>>])]

\* The triangle table: facesFront and three vertex indices per triangle.
MdlReadTriangles(d, o, h) ==
  LET nt == h.numTriangles
      k == RunCount(d, o, 4 * nt, 4)
  IN IF nt < 0
       THEN [res |-> "RangeError", off |-> o, hi |-> 0, faceFront |-> <<>>, indices |-> <<>>]
     ELSE IF k < 4 * nt
       THEN [res |-> "RangeError", off |-> o + 4 * k, hi |-> RunHi(o, k, 4),
             faceFront |-> <<>>, indices |-> <<>>]
     ELSE [res |-> "ok", off |-> o + 16 * nt, hi |-> RunHi(o, k, 4),
           faceFront |-> [i \in 1..nt |-> getInt32(d, o + 16 * (i - 1))],
           indices |-> [x \in 1..(3 * nt) |->
                          getInt32(d, o + 16 * ((x - 1) \div 3) + 4 + 4 * ((x - 1) % 3))]]

NORMAL_COUNT == 162

\* The table row after the one the index byte selects.
NormalNext(normalIndex) == anormals[((normalIndex + 1) % NORMAL_COUNT) + 1]

\* anormals[normalIndex].
Normal(normalIndex) == anormals[normalIndex + 1]

\* The vertex loop of parseFrame from vertex i on; P and N are the positions
\* and normals decoded so far.
RECURSIVE ParseVertices(_, _, _, _, _, _, _)
ParseVertices(d, o, hi, h, i, P, N) ==
  IF i >= h.numVertices THEN [res |-> "ok", off |-> o, hi |-> hi, positions |-> P, normals |-> N]
  ELSE
    LET k == RunCount(d, o, 4, 1)
        nhi == Max(hi, RunHi(o, k, 1))
    IN IF k < 4
         THEN [res |-> "RangeError", off |-> o + k, hi |-> nhi, positions |-> P, normals |-> N]
       ELSE IF getUint8(d, o + 3) >= NORMAL_COUNT
         THEN [res |-> "TypeError", off |-> o + 4, hi |-> nhi, positions |-> P, normals |-> N]
       ELSE ParseVertices(d, o + 4, nhi, h, i + 1,
              P \o <<getUint8(d, o) * h.scale[1] + h.translate[1],
                     getUint8(d, o + 1) * h.scale[2] + h.translate[2],
                     getUint8(d, o + 2) * h.scale[3] + h.translate[3]>>,
              N \o Normal(getUint8(d, o + 3)))

\* Bytes parseFrame skips before the vertices: bboxmin, bboxmax, name[16].
FRAME_HEAD == 24

\* The vertex loop started where the frame begins.
parseFrameNoSkip(d, o, h) == ParseVertices(d, o, 0, h, 0, <<>>, <<>>)

parseFrame(d, o, h) == ParseVertices(d, o + FRAME_HEAD, 0, h, 0, <<>>, <<>>)

\* Bytes skipped after a group's frame count for "min, max".
GROUP_MINMAX == 12

\* The loop over the frames of a group, from frame j on.
RECURSIVE ParseGroupFrames(_, _, _, _, _, _)
ParseGroupFrames(d, o, hi, h, j, n) ==
  IF j >= n THEN [res |-> "ok", off |-> o, hi |-> hi]
  ELSE IF h.numVertices <= 0 THEN [res |-> "ok", off |-> o + FRAME_HEAD * (n - j), hi |-> hi]
  ELSE LET r == parseFrame(d, o, h)
       IN IF r.res # "ok" THEN [res |-> r.res, off |-> r.off, hi |-> Max(hi, r.hi)]
          ELSE ParseGroupFrames(d, r.off, Max(hi, r.hi), h, j + 1, n)

\* A group frame record, after its type flag: count, min/max, intervals, frames.
MdlReadGroup(d, o, h) ==
  IF ~InBuf(d, o, 4) THEN [res |-> "RangeError", off |-> o, hi |-> 0, n |-> 0]
  ELSE LET n == getInt32(d, o)
           r == ParseGroupFrames(d, o + 4 + GROUP_MINMAX + 4 * n, o + 4, h, 0, n)
       IN [res |-> r.res, off |-> r.off, hi |-> r.hi, n |-> n]

\* Half-texels added to s at a corner: 0.5*skinWidth texels on the back of a seam.
SeamOffsetBug(front, seam, w) == IF seam # 0 THEN w ELSE 0

SeamOffset(front, seam, w) == IF front = 0 /\ seam # 0 THEN w ELSE 0

\* A typed array read: the element, or NaN when the index is outside it.
InArray(a, x) == x >= 0 /\ x < Len(a)

\* The corner's own slot taken as its vertex.
CornerSourceSelf(indices, idx) == idx

\* let vertexIndex = indices[idx]: the vertex of corner slot idx.
CornerSource(indices, idx) == indices[idx + 1]

\* The per-corner expansion of one decoded frame (positions2, normals2, uvs2).
\* A uv entry <<n, m>> stands for the quotient n / m; nan[c] tells that the
\* entries of corner c are NaN (they are then held as 0).
MdlExpand(h, indices, faceFront, onSeam, uvs, frame) ==
  LET nt == h.numTriangles
      V(idx) == CornerSource(indices, idx)
      ok(idx) == InArray(onSeam, V(idx))
  IN [positions |-> [x \in 1..(9 * nt) |->
                       LET idx == (x - 1) \div 3
                       IN IF InArray(frame.positions, 3 * V(idx) + ((x - 1) % 3))
                            THEN frame.positions[3 * V(idx) + ((x - 1) % 3) + 1] ELSE 0],
      normals |-> [x \in 1..(9 * nt) |->
                     LET idx == (x - 1) \div 3
                     IN IF InArray(frame.normals, 3 * V(idx) + ((x - 1) % 3))
                          THEN frame.normals[3 * V(idx) + ((x - 1) % 3) + 1] ELSE 0],
      uvs |-> [x \in 1..(6 * nt) |->
                 LET idx == (x - 1) \div 2
                     i == idx \div 3
                 IN IF ~InArray(uvs, 2 * V(idx) + ((x - 1) % 2)) THEN <<0, 1>>
                    ELSE IF (x - 1) % 2 = 0
                      THEN <<2 * uvs[2 * V(idx) + 1]
                               + SeamOffset(faceFront[i + 1],
                                            IF ok(idx) THEN onSeam[V(idx) + 1] ELSE 0,
                                            h.skinWidth) + 1,
                             2 * h.skinWidth>>
                    ELSE <<2 * uvs[2 * V(idx) + 2] + 1, 2 * h.skinHeight>>],
      nan |-> [c \in 1..(3 * nt) |-> ~ok(c - 1)]]

----------------------------------------------------------------------------
(* BSPFileLoader.importMesh, step by step, in the same form as above.      *)
(* A DirectoryEntry is [offset, count]; count is the quotient <<b, e>> of  *)
(* the section's byte length b by its element size e, as readHeader        *)
(* computes it (a JavaScript number, not necessarily whole).               *)

\* BSP_VERSION or the 'BSP2' magic.
BspMagicOkBSP2(m) == m = BSP_VERSION \/ m = 844124994

BspMagicOk(m) == m = BSP_VERSION

PLANE_SIZE == 20
VERTEX_SIZE == 12
TEXINFO_SIZE == 40
FACE_SIZE == 20
EDGE_SIZE == 4
LEDGE_SIZE == 4

NoEntry == [offset |-> 0, count |-> <<0, 1>>]

NoBspHeader ==
  [planes |-> NoEntry, miptex |-> NoEntry, vertices |-> NoEntry, texinfo |-> NoEntry,
   faces |-> NoEntry, edges |-> NoEntry, ledges |-> NoEntry]

\* The pair at byte o taken as it stands, the length undivided.
EntryRaw(d, o, size) == [offset |-> getInt32(d, o), count |-> <<getInt32(d, o + 4), 1>>]

\* The DirectoryEntry readHeader builds from the pair at byte o.
Entry(d, o, size) == [offset |-> getInt32(d, o), count |-> <<getInt32(d, o + 4), size>>]

\* readHeader, entered with the cursor at 4: three runs of fetches separated
\* by skips.
readHeader(d) ==
  LET k1 == RunCount(d, 12, 6, 4)
      k2 == RunCount(d, 52, 4, 4)
      k3 == RunCount(d, 100, 4, 4)
  IN IF k1 < 6
       THEN [res |-> "RangeError", off |-> 12 + 4 * k1, hi |-> RunHi(12, k1, 4),
             header |-> NoBspHeader]
     ELSE IF k2 < 4
       THEN [res |-> "RangeError", off |-> 52 + 4 * k2, hi |-> Max(36, RunHi(52, k2, 4)),
             header |-> NoBspHeader]
     ELSE IF k3 < 4
       THEN [res |-> "RangeError", off |-> 100 + 4 * k3, hi |-> Max(68, RunHi(100, k3, 4)),
             header |-> NoBspHeader]
     ELSE [res |-> "ok", off |-> 124, hi |-> 116,
           header |-> [planes |-> Entry(d, 12, PLANE_SIZE),
                       miptex |-> Entry(d, 20, 1),
                       vertices |-> Entry(d, 28, VERTEX_SIZE),
                       texinfo |-> Entry(d, 52, TEXINFO_SIZE),
                       faces |-> Entry(d, 60, FACE_SIZE),
                       edges |-> Entry(d, 100, EDGE_SIZE),
                       ledges |-> Entry(d, 108, LEDGE_SIZE)]]

\* The magic check and readHeader.
BspReadHeader(d) ==
  IF ~InBuf(d, 0, 4) THEN [res |-> "RangeError", off |-> 0, hi |-> 0, header |-> NoBspHeader]
  ELSE IF ~BspMagicOk(getInt32(d, 0))
    THEN [res |-> "false", off |-> 4, hi |-> 4, header |-> NoBspHeader]
  ELSE LET r == readHeader(d) IN [r EXCEPT !.hi = Max(4, r.hi)]

\* Number of passes of "for (i = 0; i < count; ++i)".
Passes(c) == IF c[1] <= 0 THEN 0 ELSE (c[1] + c[2] - 1) \div c[2]

\* new Array(count) accepts only a whole, non-negative count.
ArrayLength(c) == c[1] >= 0 /\ c[1] % c[2] = 0

\* new Int32Array(count) truncates count and rejects a negative one.
TypedLength(c) == IF c[1] <= 0 THEN 0 ELSE c[1] \div c[2]

TypedLengthOk(c) == c[1] > -c[2]

\* The fields of one record are fetched in turn: where the cursor stops.
RECURSIVE FieldStop(_, _, _)
FieldStop(d, o, ws) ==
  IF ws = <<>> THEN o
  ELSE IF InBuf(d, o, Head(ws)) THEN FieldStop(d, o + Head(ws), Tail(ws))
  ELSE o

RECURSIVE Sum(_)
Sum(ws) == IF ws = <<>> THEN 0 ELSE Head(ws) + Sum(Tail(ws))

\* n records with field widths ws are fetched from o on: where the cursor
\* stops (o + n * Sum(ws) when every fetch succeeds).
RECURSIVE TableStop(_, _, _, _)
TableStop(d, o, n, ws) ==
  IF n <= 0 THEN o
  ELSE LET e == FieldStop(d, o, ws)
       IN IF e < o + Sum(ws) THEN e ELSE TableStop(d, e, n - 1, ws)

\* Positions are divided by 10 on load: a vertex holds quotients <<n, 10>>.
VERTEX_DIVISOR == 10

BspVertex(d, o) ==
  <<<<getFloat32(d, o), VERTEX_DIVISOR>>, <<getFloat32(d, o + 4), VERTEX_DIVISOR>>,
    <<getFloat32(d, o + 8), VERTEX_DIVISOR>>>>

\* An edge is Vector2(v0, v1): x is the first index stored, y the second.
BspEdge(d, o) == [x |-> getUint16(d, o), y |-> getUint16(d, o + 2)]

BspTexinfo(d, o) ==
  [s |-> <<getFloat32(d, o), getFloat32(d, o + 4), getFloat32(d, o + 8),
           getFloat32(d, o + 12)>>,
   t |-> <<getFloat32(d, o + 16), getFloat32(d, o + 20), getFloat32(d, o + 24),
           getFloat32(d, o + 28)>>,
   miptex |-> getUint32(d, o + 32), flags |-> getUint32(d, o + 36)]

BspPlane(d, o) ==
  [normal |-> <<getFloat32(d, o), getFloat32(d, o + 4), getFloat32(d, o + 8)>>,
   distance |-> getFloat32(d, o + 12), type |-> getUint32(d, o + 16)]

BspFace(d, o) ==
  [planeIndex |-> getUint16(d, o), side |-> getUint16(d, o + 2) # 0,
   ledgeIndex |-> getInt32(d, o + 4), numLedges |-> getUint16(d, o + 8),
   texInfoIndex |-> getInt16(d, o + 10), lightType |-> getUint8(d, o + 12),
   baseLight |-> getUint8(d, o + 13),
   light |-> <<getUint8(d, o + 14), getUint8(d, o + 15)>>,
   lightMap |-> getUint32(d, o + 16)]

\* The record of one pass of a section's loop, by section.
TableRecord(d, o, kind) ==
  CASE kind = "vertex" -> BspVertex(d, o)
    [] kind = "edge" -> BspEdge(d, o)
    [] kind = "texinfo" -> BspTexinfo(d, o)
    [] kind = "ledge" -> getInt32(d, o)
    [] kind = "plane" -> BspPlane(d, o)
    [] kind = "face" -> BspFace(d, o)

\* A section decoder: seek to the entry's offset and decode its records
\* with TableRecord(d, o, kind), the record at byte o.  arr tells whether the table is a
\* plain Array.
ReadTable(d, e, ws, kind, arr) ==
  LET n == Passes(e.count)
      stop == TableStop(d, e.offset, n, ws)
      hi == IF stop > e.offset THEN stop ELSE 0
  IN IF (arr /\ ~ArrayLength(e.count)) \/ (~arr /\ ~TypedLengthOk(e.count))
       THEN [res |-> "RangeError", off |-> e.offset, hi |-> 0, table |-> <<>>]
     ELSE IF stop < e.offset + n * Sum(ws)
       THEN [res |-> "RangeError", off |-> stop, hi |-> hi, table |-> <<>>]
     ELSE [res |-> "ok", off |-> stop, hi |-> hi,
           table |-> [i \in 1..(IF arr THEN n ELSE TypedLength(e.count)) |->
                        TableRecord(d, e.offset + Sum(ws) * (i - 1), kind)]]

BspReadVertices(d, h) ==
  ReadTable(d, h.vertices, <<4, 4, 4>>, "vertex", TRUE)

BspReadEdges(d, h) == ReadTable(d, h.edges, <<2, 2>>, "edge", TRUE)

BspReadTexinfos(d, h) ==
  ReadTable(d, h.texinfo, <<4, 4, 4, 4, 4, 4, 4, 4, 4, 4>>, "texinfo", TRUE)

BspReadLedges(d, h) == ReadTable(d, h.ledges, <<4>>, "ledge", FALSE)

BspReadPlanes(d, h) ==
  ReadTable(d, h.planes, <<4, 4, 4, 4, 4>>, "plane", TRUE)

\* The face loop without its last read (the lightmap offset).
BspReadFacesShort(d, h) ==
  ReadTable(d, h.faces, <<2, 2, 4, 2, 2, 1, 1, 1, 1>>, "face", TRUE)

BspReadFaces(d, h) ==
  ReadTable(d, h.faces, <<2, 2, 4, 2, 2, 1, 1, 1, 1, 4>>, "face", TRUE)

\* numTriangles after the faces 1..k, and the faceOffsets array.
RECURSIVE TrianglesBefore(_, _)
TrianglesBefore(faces, k) ==
  IF k = 0 THEN 0 ELSE TrianglesBefore(faces, k - 1) + (faces[k].numLedges - 2)

FaceOffsets(faces) == [i \in 1..(Len(faces) + 1) |-> TrianglesBefore(faces, i - 1)]

\* The name field: the bytes before the first NUL.
RECURSIVE TextureName(_)
TextureName(bs) ==
  IF bs = <<>> \/ Head(bs) = 0 THEN <<>> ELSE <<Head(bs)>> \o TextureName(Tail(bs))

\* new Uint8Array(buffer, o, n) / new Uint32Array(buffer, o, n): the view must
\* lie inside the buffer and start on a multiple of the element width.
ViewOk(d, o, n, w) == o >= 0 /\ o % w = 0 /\ n >= 0 /\ o + n * w <= Len(d)

\* A record offset taken as a position in the file.
MiptexAtAbsolute(base, recOff) == recOff

\* seekBytes(header.miptex.offset + miptexOffsets[i]).
MiptexAt(base, recOff) == base + recOff

\* The texture records from record i on; base is the section offset, offs
\* the record offsets, T the records decoded so far.
RECURSIVE BspReadMiptexs(_, _, _, _, _, _, _)
BspReadMiptexs(d, base, offs, n, i, hi, T) ==
  IF i >= n THEN [res |-> "ok", off |-> IF n > 0 THEN base + offs[n] + 40 ELSE base + 4,
                  hi |-> hi, miptexs |-> T]
  ELSE
    LET o == MiptexAt(base, offs[i + 1])
        stop == FieldStop(d, o + 16, <<4, 4, 4, 4, 4, 4>>)
    IN IF ~ViewOk(d, o, 16, 1)
         THEN [res |-> "RangeError", off |-> o, hi |-> hi, miptexs |-> T]
       ELSE IF stop < o + 40
         THEN [res |-> "RangeError", off |-> stop, hi |-> Max(hi, stop), miptexs |-> T]
       ELSE BspReadMiptexs(d, base, offs, n, i + 1, Max(hi, o + 40),
              Append(T, [name |-> TextureName(SubSeq(d, o + 1, o + 16)),
                         width |-> getUint32(d, o + 16), height |-> getUint32(d, o + 20),
                         offsets |-> <<getUint32(d, o + 24), getUint32(d, o + 28),
                                       getUint32(d, o + 32), getUint32(d, o + 36)>>]))

\* The texture table: its count, its offsets, its records.
BspReadMiptex(d, h) ==
  LET base == h.miptex.offset
      n == getUint32(d, base)
      none == [count |-> 0, miptexOffsets |-> <<>>, miptexs |-> <<>>]
  IN IF ~InBuf(d, base, 4)
       THEN [res |-> "RangeError", off |-> base, hi |-> 0] @@ none
     ELSE IF ~ViewOk(d, base + 4, n, 4)
       THEN [res |-> "RangeError", off |-> base + 4, hi |-> base + 4] @@ none
     ELSE LET offs == [i \in 1..n |-> getUint32(d, base + 4 * i)]
              r == BspReadMiptexs(d, base, offs, n, 0, base + 4 + 4 * n, <<>>)
          IN [res |-> r.res, off |-> r.off, hi |-> r.hi, count |-> n,
              miptexOffsets |-> offs, miptexs |-> r.miptexs]

\* Palette decoding of the n index bytes at o, as the level loader does it.
BspPalette(d, o, n) ==
  Flatten([j \in 1..n |-> colorMapBSP[getUint8(d, o + j - 1) + 1]])

\* The first mip offset counted from the start of the texture section.
BspImageStartFromBase(base, recOff, m) == base + m.offsets[1]

\* Where the full-size image of texture record m at section offset base +
\* recOff starts.
BspImageStart(base, recOff, m) == base + recOff + m.offsets[1]

\* The material loop from texture i on; cur is the cursor, M holds the
\* materials made so far.
RECURSIVE BspReadTextures(_, _, _, _, _, _, _, _)
BspReadTextures(d, base, offs, ms, i, cur, hi, M) ==
  IF i >= Len(ms) THEN [res |-> "ok", off |-> cur, hi |-> hi, materials |-> M]
  ELSE
    LET o == BspImageStart(base, offs[i + 1], ms[i + 1])
        n == ms[i + 1].width * ms[i + 1].height
        k == RunCount(d, o, n, 1)
    IN IF 3 * n < 0 THEN [res |-> "RangeError", off |-> o, hi |-> hi, materials |-> M]
       ELSE IF k < n
         THEN [res |-> "RangeError", off |-> o + k, hi |-> Max(hi, RunHi(o, k, 1)),
               materials |-> M]
       ELSE BspReadTextures(d, base, offs, ms, i + 1, o + n, Max(hi, RunHi(o, k, 1)),
              Append(M, [name |-> ms[i + 1].name, width |-> ms[i + 1].width,
                         height |-> ms[i + 1].height, data |-> BspPalette(d, o, n),
                         start |-> o]))

\* The vertex a signed edge-list entry contributes to the polygon.
ResolveVertexSwapped(edgeIndex, edge) == IF edgeIndex < 0 THEN edge.y ELSE edge.x

ResolveVertex(edgeIndex, edge) == IF edgeIndex < 0 THEN edge.x ELSE edge.y

Abs(n) == IF n < 0 THEN -n ELSE n

\* "Extract polygon": the entries start..end-1 of the edge list, from j on.
RECURSIVE ExtractPolygon(_, _, _, _, _)
ExtractPolygon(ledges, edges, j, end, P) ==
  IF j >= end THEN [res |-> "ok", polygon |-> P]
  ELSE IF ~InArray(ledges, j) THEN [res |-> "TypeError", polygon |-> P]
  ELSE IF ~InArray(edges, Abs(ledges[j + 1])) THEN [res |-> "TypeError", polygon |-> P]
  ELSE ExtractPolygon(ledges, edges, j + 1, end,
         Append(P, ResolveVertex(ledges[j + 1], edges[Abs(ledges[j + 1]) + 1])))

\* The corners of triangle j of a polygon (j from 0).
FanTriangleStrip(polygon, j) == <<polygon[j + 1], polygon[j + 2], polygon[j + 3]>>

FanTriangle(polygon, j) == <<polygon[1], polygon[j + 2], polygon[j + 3]>>

\* v.multiply(10, 10, 10, 1) dotted with a texinfo axis, as a quotient.
AxisDot(vertex, axis) ==
  <<vertex[1][1] * VERTEX_DIVISOR * axis[1] + vertex[2][1] * VERTEX_DIVISOR * axis[2]
      + vertex[3][1] * VERTEX_DIVISOR * axis[3] + VERTEX_DIVISOR * axis[4],
    VERTEX_DIVISOR>>

\* The pass of the geometry loop for face i (from 0) on locals b.
BspFaceGeometry(b, i) ==
  LET face == b.faces[i + 1]
      start == face.ledgeIndex
      end == start + face.numLedges
      none == [polygon |-> <<>>, positions |-> b.positions, uvs |-> b.uvs,
               indices |-> b.indices]
  IN IF ~InArray(b.texinfos, face.texInfoIndex) THEN [res |-> "TypeError"] @@ none
     ELSE
       LET texinfo == b.texinfos[face.texInfoIndex + 1]
           p == ExtractPolygon(b.ledges, b.edges, start, end, <<>>)
           polygon == p.polygon
           n == Len(polygon) - 2
           fo == b.faceOffsets[i + 1]
           T(j) == FanTriangle(polygon, j)
           miptex == b.miptexs[texinfo.miptex + 1]
           \* does this pass write triangle slot x (from 0), and as which j
           mine(x) == fo >= 0 /\ x - fo >= 0 /\ x - fo < n
           vertex(x, k) == b.vertices[T(x - fo)[k + 1] + 1]
       IN IF p.res # "ok" THEN [res |-> p.res] @@ none
          ELSE IF n > 0 /\ \E j \in 0..(n - 1) : \E k \in 1..3 : ~InArray(b.vertices, T(j)[k])
            THEN [res |-> "TypeError"] @@ none
          ELSE IF n > 0 /\ ~InArray(b.miptexs, texinfo.miptex)
            THEN [res |-> "TypeError"] @@ none
          ELSE
            [res |-> "ok", polygon |-> polygon,
             positions |-> [x \in 1..Len(b.positions) |->
                              IF mine((x - 1) \div 9)
                                THEN vertex((x - 1) \div 9, ((x - 1) % 9) \div 3)[((x - 1) % 3) + 1]
                                ELSE b.positions[x]],
             uvs |-> [x \in 1..Len(b.uvs) |->
                        IF mine((x - 1) \div 6)
                          THEN LET v == vertex((x - 1) \div 6, ((x - 1) % 6) \div 2)
                               IN IF (x - 1) % 2 = 0
                                    THEN <<AxisDot(v, texinfo.s)[1],
                                           AxisDot(v, texinfo.s)[2] * miptex.width>>
                                    ELSE <<-AxisDot(v, texinfo.t)[1],
                                           AxisDot(v, texinfo.t)[2] * miptex.height>>
                          ELSE b.uvs[x]],
             indices |-> [x \in 1..Len(b.indices) |->
                            IF mine((x - 1) \div 3) THEN x - 1 ELSE b.indices[x]]]

\* The SubMesh made for face i (from 0).
BspSubMeshToEnd(b, i) ==
  LET start == b.faceOffsets[i + 1]
      end == b.faceOffsets[i + 2]
  IN [materialIndex |-> b.texinfos[b.faces[i + 1].texInfoIndex + 1].miptex,
      verticesStart |-> 9 * start, verticesCount |-> 9 * end,
      indexStart |-> 3 * start, indexCount |-> 3 * end]

BspSubMesh(b, i) ==
  LET start == b.faceOffsets[i + 1]
      end == b.faceOffsets[i + 2]
      num == end - start
  IN [materialIndex |-> b.texinfos[b.faces[i + 1].texInfoIndex + 1].miptex,
      verticesStart |-> 9 * start, verticesCount |-> 9 * num,
      indexStart |-> 3 * start, indexCount |-> 3 * num]

\* A frame record is a single frame when its type flag is 0.
SingleFrame(type) == type = 0

\* One iteration of the frame loop: the type flag, then a frame or a group.
MdlReadFrame(d, o, h) ==
  LET none == [positions |-> <<>>, normals |-> <<>>]
  IN IF ~InBuf(d, o, 4)
       THEN [res |-> "RangeError", off |-> o, hi |-> 0, type |-> 0, n |-> 0, frame |-> none]
     ELSE IF SingleFrame(getInt32(d, o))
       THEN LET r == parseFrame(d, o + 4, h)
            IN [res |-> r.res, off |-> r.off, hi |-> Max(o + 4, r.hi), type |-> 0, n |-> 0,
                frame |-> [positions |-> r.positions, normals |-> r.normals]]
     ELSE LET r == MdlReadGroup(d, o + 4, h)
          IN [res |-> r.res, off |-> r.off, hi |-> Max(o + 4, r.hi),
              type |-> getInt32(d, o), n |-> r.n, frame |-> none]

NoMesh == [created |-> FALSE, positions |-> <<>>, normals |-> <<>>, uvs |-> <<>>,
           indices |-> <<>>]

MdlStart ==
  [header |-> NoHeader, skinIdx |-> 0, textures |-> <<>>, onSeam |-> <<>>, uvs |-> <<>>,
   indices |-> <<>>, faceFront |-> <<>>, mesh |-> NoMesh, targets |-> <<>>,
   frameIdx |-> 0, frameLog |-> <<>>]

BspStart ==
  [header |-> NoBspHeader, vertices |-> <<>>, edges |-> <<>>, texinfos |-> <<>>,
   miptexOffsets |-> <<>>, miptexs |-> <<>>, materials |-> <<>>, ledges |-> <<>>,
   planes |-> <<>>, faces |-> <<>>, faceOffsets |-> <<>>, numTriangles |-> 0,
   positions |-> <<>>, uvs |-> <<>>, indices |-> <<>>, faceIdx |-> 0, polygons |-> <<>>,
   mesh |-> FALSE, subMeshes |-> <<>>]

\* The viewer before a model is loaded: var time = 0, no callback
\* registered.  time is held in quarters; influence holds four times the
\* influence of each morph target; frame and alpha are the callback's locals
\* frameIndex and alpha (in quarters) of its last run; touched is the set of
\* indices its last run handed to getTarget.
ViewStart ==
  [on |-> FALSE, time |-> 0, frame |-> 0, alpha |-> 0, influence |-> <<>>,
   touched |-> {}]

\* No BinaryReader method has been called directly.
\* op is the method, arg its argument, before the offset when it was called,
\* threw whether it threw, value what getPosition or getLength returned.
NoRead == [op |-> "none", arg |-> 0, before |-> 0, threw |-> FALSE, value |-> 0]

\* What a call of importMesh leaves behind.
Outcome == [result |-> result, offset |-> offset, meshes |-> meshes, mdl |-> mdl, bsp |-> bsp]

FirstCall ==
  [n |-> 1,
   first |-> [result |-> "none", offset |-> 0, meshes |-> [null |-> FALSE, list |-> <<>>],
              mdl |-> MdlStart, bsp |-> BspStart]]

\* The textures of the call before, kept.
KeptTextures(before) == before

\* let textures = []: each call starts its own list.
NewTextures(before) == <<>>

\* importMesh is called again on the same buffer: a new BinaryReader, new
\* locals, the caller's list as it was.
Again ==
  /\ pc = "done" /\ calls.n = 1 /\ ~view.on
  /\ calls' = [n |-> 2, first |-> Outcome]
  /\ offset' = 0 /\ hiRead' = 0
  /\ pc' = "header" /\ result' = "none"
  /\ mdl' = [MdlStart EXCEPT !.textures = NewTextures(mdl.textures)]
  /\ bsp' = BspStart
  /\ meshes' = [null |-> input.nullMeshes, list |-> <<>>]
  /\ UNCHANGED <<loader, input, data, view, reader>>

\* The common end of a step: the cursor moves as the step left it; the step
\* goes on to pc n with locals m, or importMesh ends with r.res.
MdlStep(r, n, m) ==
  /\ offset' = r.off
  /\ hiRead' = Max(hiRead, r.hi)
  /\ IF r.res = "ok"
       THEN pc' = n /\ result' = result /\ mdl' = m
       ELSE pc' = "done" /\ result' = r.res /\ mdl' = mdl
  /\ UNCHANGED <<loader, input, data, meshes, bsp, calls,
               view, reader>>

MdlHeader ==
  /\ loader = "mdl" /\ pc = "header"
  /\ LET r == MdlReadHeader(data)
     IN MdlStep(r, "skins", [mdl EXCEPT !.header = r.header])

MdlSkin ==
  /\ loader = "mdl" /\ pc = "skins"
  /\ mdl.skinIdx < mdl.header.numSkins
  /\ LET r == MdlReadSkin(data, offset, mdl.header)
     IN MdlStep(r, "skins", [mdl EXCEPT !.skinIdx = @ + 1,
                                       !.textures = Append(@, r.texture)])

MdlUVs ==
  /\ loader = "mdl" /\ pc = "skins"
  /\ mdl.skinIdx >= mdl.header.numSkins
  /\ LET r == MdlReadUVs(data, offset, mdl.header)
     IN MdlStep(r, "triangles", [mdl EXCEPT !.onSeam = r.onSeam, !.uvs = r.uvs])

MdlTriangles ==
  /\ loader = "mdl" /\ pc = "triangles"
  /\ LET r == MdlReadTriangles(data, offset, mdl.header)
     IN MdlStep(r, "mesh", [mdl EXCEPT !.faceFront = r.faceFront, !.indices = r.indices])

\* The mesh importMesh builds before the frame loop: zeroed buffers and the
\* identity index buffer indices2.
MdlMesh(h) ==
  [created |-> TRUE, positions |-> Zeros(3 * 3 * h.numTriangles),
   normals |-> Zeros(3 * 3 * h.numTriangles), uvs |-> Zeros(2 * 3 * h.numTriangles),
   indices |-> [x \in 1..(3 * h.numTriangles) |-> x - 1]]

\* new Mesh ... meshes.push(mesh): push on null throws a TypeError.
MdlCreateMesh ==
  /\ loader = "mdl" /\ pc = "mesh"
  /\ mdl' = [mdl EXCEPT !.mesh = MdlMesh(mdl.header)]
  /\ IF meshes.null
       THEN pc' = "done" /\ result' = "TypeError" /\ meshes' = meshes
       ELSE pc' = "frames" /\ result' = result
            /\ meshes' = [meshes EXCEPT !.list = Append(@, "mdl")]
  /\ UNCHANGED <<loader, input, data, offset, hiRead, bsp, calls,
               view, reader>>

MdlFrame ==
  /\ loader = "mdl" /\ pc = "frames"
  /\ mdl.frameIdx < mdl.header.numFrames
  /\ LET r == MdlReadFrame(data, offset, mdl.header)
         log == [start |-> offset, type |-> r.type, n |-> r.n, end |-> r.off]
     IN MdlStep(r, "frames",
          [mdl EXCEPT !.frameIdx = @ + 1,
                      !.frameLog = Append(@, log),
                      !.targets = IF r.type = 0
                                    THEN Append(@, MdlExpand(mdl.header, mdl.indices,
                                                     mdl.faceFront, mdl.onSeam, mdl.uvs,
                                                     r.frame))
                                    ELSE @])

MdlReturn ==
  /\ loader = "mdl" /\ pc = "frames"
  /\ mdl.frameIdx >= mdl.header.numFrames
  /\ pc' = "done" /\ result' = "true"
  /\ UNCHANGED <<loader, input, data, meshes, offset, hiRead, mdl, bsp, calls,
               view, reader>>

InitMDL ==
  /\ loader = "mdl"
  /\ input \in MdlInputs
  /\ data = MdlFile(input)
  /\ meshes = [null |-> input.nullMeshes, list |-> <<>>]
  /\ offset = 0 /\ hiRead = 0
  /\ pc = "header" /\ result = "none"
  /\ mdl = MdlStart /\ bsp = BspStart
  /\ calls = FirstCall
  /\ view = ViewStart /\ reader = NoRead

NextMDL ==
  \/ MdlHeader
  \/ MdlSkin
  \/ MdlUVs
  \/ MdlTriangles
  \/ MdlCreateMesh
  \/ MdlFrame
  \/ MdlReturn
  \/ Again

SpecMDL == InitMDL /\ [][NextMDL]_vars

----------------------------------------------------------------------------
(* The viewer.  SceneLoader.ImportMesh hands the decoded mesh to a         *)
(* callback that registers a before-render function on the scene; the     *)
(* render loop then runs that function before every frame.                 *)

\* time += 0.25: quarters in one unit of time.
QUARTERS == 4

\* The callback is followed for this many runs: two turns through the
\* longest animation the files hold, and one more frame.
TimeCap == QUARTERS * (2 * MaxFrames + 1)

\* manager.numTargets: one target was added per decoded single frame.
numTargets == Len(mdl.targets)

\* The target after the last one.
NextTargetClamped(f, n) == Min(f + 1, n - 1)

\* (frameIndex + 1) % manager.numTargets
NextTarget(f, n) == (f + 1) % n

\* The success callback of ImportMesh: scene.registerBeforeRender(...).
\* Every new MorphTarget("", 0) starts with influence 0.
RegisterBeforeRender ==
  /\ loader = "mdl" /\ pc = "done" /\ result = "true"
  /\ ~view.on
  /\ view' = [view EXCEPT !.on = TRUE, !.influence = Zeros(numTargets)]
  /\ UNCHANGED <<loader, input, data, meshes, offset, hiRead, pc, result, mdl, bsp,
                 calls, reader>>

\* One run of the registered function.
BeforeRender ==
  /\ view.on /\ view.time < TimeCap
  /\ LET n == numTargets
     IN IF n < 2
          THEN \* manager.getTarget(0).influence = 1
               view' = [view EXCEPT !.touched = {0},
                                    !.influence = IF n = 1 THEN <<QUARTERS>> ELSE @]
          ELSE LET frameIndex == (view.time % (QUARTERS * n)) \div QUARTERS
                   alpha == (view.time % (QUARTERS * n)) - QUARTERS * frameIndex
                   zeroed == Zeros(n)
                   first == [zeroed EXCEPT ![frameIndex + 1] = QUARTERS - alpha]
                   second == [first EXCEPT ![NextTarget(frameIndex, n) + 1] = alpha]
               IN view' = [view EXCEPT !.time = @ + 1,
                                       !.frame = frameIndex, !.alpha = alpha,
                                       !.touched = (0..(n - 1))
                                           \cup {frameIndex, NextTarget(frameIndex, n)},
                                       !.influence = second]
  /\ UNCHANGED <<loader, input, data, meshes, offset, hiRead, pc, result, mdl, bsp,
                 calls, reader>>

NextView ==
  \/ NextMDL
  \/ RegisterBeforeRender
  \/ BeforeRender

\* engine.runRenderLoop renders frame after frame: a registered function
\* that can run does run.
SpecView == InitMDL /\ [][NextView]_vars /\ WF_vars(BeforeRender)

----------------------------------------------------------------------------
(* The steps of BSPFileLoader.importMesh.                                  *)

BspStep(r, n, b) ==
  /\ offset' = r.off
  /\ hiRead' = Max(hiRead, r.hi)
  /\ IF r.res = "ok"
       THEN pc' = n /\ result' = result /\ bsp' = b
       ELSE pc' = "done" /\ result' = r.res /\ bsp' = bsp
  /\ UNCHANGED <<loader, input, data, meshes, mdl, calls,
               view, reader>>

BspHeader ==
  /\ loader = "bsp" /\ pc = "header"
  /\ LET r == BspReadHeader(data)
     IN BspStep(r, "vertices", [bsp EXCEPT !.header = r.header])

BspVertices ==
  /\ loader = "bsp" /\ pc = "vertices"
  /\ LET r == BspReadVertices(data, bsp.header)
     IN BspStep(r, "edges", [bsp EXCEPT !.vertices = r.table])

BspEdges ==
  /\ loader = "bsp" /\ pc = "edges"
  /\ LET r == BspReadEdges(data, bsp.header)
     IN BspStep(r, "texinfos", [bsp EXCEPT !.edges = r.table])

BspTexinfos ==
  /\ loader = "bsp" /\ pc = "texinfos"
  /\ LET r == BspReadTexinfos(data, bsp.header)
     IN BspStep(r, "miptex", [bsp EXCEPT !.texinfos = r.table])

\* header.miptex.count is replaced by the count stored in the section.
BspMiptex ==
  /\ loader = "bsp" /\ pc = "miptex"
  /\ LET r == BspReadMiptex(data, bsp.header)
     IN BspStep(r, "materials",
          [bsp EXCEPT !.header.miptex.count = <<r.count, 1>>,
                      !.miptexOffsets = r.miptexOffsets, !.miptexs = r.miptexs])

BspMaterials ==
  /\ loader = "bsp" /\ pc = "materials"
  /\ LET r == BspReadTextures(data, bsp.header.miptex.offset, bsp.miptexOffsets,
                              bsp.miptexs, 0, offset, 0, <<>>)
     IN BspStep(r, "ledges", [bsp EXCEPT !.materials = r.materials])

BspLedges ==
  /\ loader = "bsp" /\ pc = "ledges"
  /\ LET r == BspReadLedges(data, bsp.header)
     IN BspStep(r, "planes", [bsp EXCEPT !.ledges = r.table])

BspPlanes ==
  /\ loader = "bsp" /\ pc = "planes"
  /\ LET r == BspReadPlanes(data, bsp.header)
     IN BspStep(r, "faces", [bsp EXCEPT !.planes = r.table])

\* The face table, faceOffsets and the zeroed vertexData buffers.
BspFaces ==
  /\ loader = "bsp" /\ pc = "faces"
  /\ LET r == BspReadFaces(data, bsp.header)
         nt == TrianglesBefore(r.table, Len(r.table))
         q == IF r.res = "ok" /\ nt < 0 THEN [r EXCEPT !.res = "RangeError"] ELSE r
     IN BspStep(q, "geometry",
          [bsp EXCEPT !.faces = r.table, !.faceOffsets = FaceOffsets(r.table),
                      !.numTriangles = nt,
                      !.positions = [x \in 1..(9 * nt) |-> <<0, 1>>],
                      !.uvs = [x \in 1..(6 * nt) |-> <<0, 1>>],
                      !.indices = Zeros(3 * nt)])

BspGeometry ==
  /\ loader = "bsp" /\ pc = "geometry"
  /\ bsp.faceIdx < Len(bsp.faces)
  /\ LET g == BspFaceGeometry(bsp, bsp.faceIdx)
         r == [res |-> g.res, off |-> offset, hi |-> 0]
     IN BspStep(r, "geometry",
          [bsp EXCEPT !.faceIdx = @ + 1, !.polygons = Append(@, g.polygon),
                      !.positions = g.positions, !.uvs = g.uvs, !.indices = g.indices])

\* new Mesh, applyToMesh and one SubMesh per face.
BspSubMeshes ==
  /\ loader = "bsp" /\ pc = "geometry"
  /\ bsp.faceIdx >= Len(bsp.faces)
  /\ pc' = "push"
  /\ bsp' = [bsp EXCEPT !.mesh = TRUE,
                        !.subMeshes = [i \in 1..Len(bsp.faces) |-> BspSubMesh(bsp, i - 1)]]
  /\ UNCHANGED <<loader, input, data, meshes, offset, hiRead, result, mdl, calls,
               view, reader>>

\* meshes.push(mesh); return true.
BspReturn ==
  /\ loader = "bsp" /\ pc = "push"
  /\ pc' = "done"
  /\ IF meshes.null
       THEN result' = "TypeError" /\ meshes' = meshes
       ELSE result' = "true" /\ meshes' = [meshes EXCEPT !.list = Append(@, "bsp")]
  /\ UNCHANGED <<loader, input, data, offset, hiRead, mdl, bsp, calls,
               view, reader>>

InitBSP ==
  /\ loader = "bsp"
  /\ input \in BspInputs
  /\ data = BspFile(input)
  /\ meshes = [null |-> input.nullMeshes, list |-> <<>>]
  /\ offset = 0 /\ hiRead = 0
  /\ pc = "header" /\ result = "none"
  /\ mdl = MdlStart /\ bsp = BspStart
  /\ calls = FirstCall
  /\ view = ViewStart /\ reader = NoRead

NextBSP ==
  \/ BspHeader
  \/ BspVertices
  \/ BspEdges
  \/ BspTexinfos
  \/ BspMiptex
  \/ BspMaterials
  \/ BspLedges
  \/ BspPlanes
  \/ BspFaces
  \/ BspGeometry
  \/ BspSubMeshes
  \/ BspReturn
  \/ Again

SpecBSP == InitBSP /\ [][NextBSP]_vars

----------------------------------------------------------------------------
(* Either loader run on one of its files.                                  *)

InitAll == InitMDL \/ InitBSP

NextAll == NextMDL \/ NextBSP

SpecAll == InitAll /\ [][NextAll]_vars

----------------------------------------------------------------------------
(* The BinaryReader on its own: a caller that holds a reader over a buffer *)
(* and calls its methods in any order, going on after a RangeError.        *)

\* Longest buffer handed to the reader.
MaxBytes == 6

\* skipBytes and seekBytes are followed up to this offset.
OffsetCap == MaxBytes + 2

\* The buffer of n bytes.
ReaderBytes(n) == [i \in 1..n |-> (37 * (i - 1) + 200) % 256]

\* Every scalar read taken as a 32-bit one.
WidthWord(op) == 4

\* The number added to _byteOffset by each scalar read.
Width(op) ==
  CASE op = "readUint8" -> 1
    [] op \in {"readInt16", "readUint16"} -> 2
    [] op \in {"readInt32", "readUint32", "readFloat32"} -> 4

\* The offset moved whether or not the fetch returned.
AdvanceAlways(ok, o, w) == o + w

\* const value = ...; this._byteOffset += w: the second statement runs
\* only when the first did not throw.
Advance(ok, o, w) == IF ok THEN o + w ELSE o

\* A method is called: the offset becomes o, the call is recorded.
ReaderCall(op, arg, ok, o, v) ==
  /\ loader = "reader" /\ pc = "reader"
  /\ offset' = o
  /\ reader' = [op |-> op, arg |-> arg, before |-> offset, threw |-> ~ok, value |-> v]
  /\ UNCHANGED <<loader, input, data, meshes, hiRead, pc, result, mdl, bsp, calls, view>>

\* A scalar read: DataView.get* throws a RangeError outside the buffer.
ReadScalar(op) ==
  LET ok == InBuf(data, offset, Width(op))
  IN ReaderCall(op, 0, ok, Advance(ok, offset, Width(op)), 0)

getPosition == ReaderCall("getPosition", 0, TRUE, offset, offset)

getLength == ReaderCall("getLength", 0, TRUE, offset, Len(data))

readUint8 == ReadScalar("readUint8")

readInt16 == ReadScalar("readInt16")

readUint16 == ReadScalar("readUint16")

readInt32 == ReadScalar("readInt32")

readUint32 == ReadScalar("readUint32")

readFloat32 == ReadScalar("readFloat32")

\* new Uint8Array(buffer, offset, length), then the offset moves.
readUint8Array ==
  \E n \in 0..3 :
    LET ok == ViewOk(data, offset, n, 1)
    IN ReaderCall("readUint8Array", n, ok, Advance(ok, offset, n), 0)

\* new Uint32Array(buffer, offset, length), then the offset moves.
readUint32Array ==
  \E n \in 0..2 :
    LET ok == ViewOk(data, offset, n, 4)
    IN ReaderCall("readUint32Array", n, ok, Advance(ok, offset, 4 * n), 0)

skipBytes ==
  \E n \in 0..3 :
    /\ offset + n <= OffsetCap
    /\ ReaderCall("skipBytes", n, TRUE, offset + n, 0)

seekBytes ==
  \E o \in 0..OffsetCap : ReaderCall("seekBytes", o, TRUE, o, 0)

\* new BinaryReader(arrayBuffer): the offset starts at 0.
InitReader ==
  /\ loader = "reader"
  /\ input \in {[length |-> n] : n \in 0..MaxBytes}
  /\ data = ReaderBytes(input.length)
  /\ meshes = [null |-> FALSE, list |-> <<>>]
  /\ offset = 0 /\ hiRead = 0
  /\ pc = "reader" /\ result = "none"
  /\ mdl = MdlStart /\ bsp = BspStart
  /\ calls = FirstCall
  /\ view = ViewStart /\ reader = NoRead

NextReader ==
  \/ getPosition
  \/ getLength
  \/ readUint8
  \/ readInt16
  \/ readUint16
  \/ readInt32
  \/ readUint32
  \/ readFloat32
  \/ readUint8Array
  \/ readUint32Array
  \/ skipBytes
  \/ seekBytes

SpecReader == InitReader /\ [][NextReader]_vars

----------------------------------------------------------------------------
(* Properties.                                                             *)

\* The file is a well-formed model: right header words, nothing missing.
MdlHeaderValid == input.magic = 1330660425 /\ input.version = 6

MdlNothingEmitted ==
  /\ mdl.textures = <<>> /\ ~mdl.mesh.created /\ mdl.targets = <<>>
  /\ meshes.list = <<>>

\* C1: level decoding of a buffer whose first little-endian i32 is not 29
\* returns false, fetches nothing past the magic and appends no mesh.
C1_LevelMagicRejected ==
  (pc # "header" /\ Len(data) >= 4 /\ input.magic # 29)
    => /\ pc = "done" /\ result = "false"
       /\ hiRead = 4 /\ offset = 4
       /\ ~bsp.mesh /\ meshes.list = <<>>
       /\ bsp.vertices = <<>> /\ bsp.materials = <<>> /\ bsp.faces = <<>>

C1_Witness == pc = "done" /\ input.magic = 844124994 /\ result = "false"

\* C2: model decoding goes past the header check only when the first i32
\* is 1330660425 and the second is 6; for every other pair it returns
\* false and emits no skin, mesh or frame.
C2_ModelHeaderChecked ==
  (pc # "header" /\ Len(data) >= 8 /\ ~MdlHeaderValid)
    => pc = "done" /\ result = "false" /\ MdlNothingEmitted

C2_Witness ==
  pc = "done" /\ input.magic = 1330660425 /\ input.version = 7 /\ result = "false"

\* The first skin (from 1) whose group flag is nonzero, 0 if there is none.
FirstGroupSkin ==
  IF \E k \in 1..Len(input.skins) : input.skins[k].group # 0
    THEN CHOOSE k \in 1..Len(input.skins) :
           /\ input.skins[k].group # 0
           /\ \A j \in 1..(k - 1) : input.skins[j].group = 0
    ELSE 0

\* Byte at which skin record k (from 1) starts.
SkinStart(k) == 84 + (k - 1) * (4 + input.skinWidth * input.skinHeight)

\* C3: when a skin's group flag is nonzero, model decoding returns false at
\* that skin with only the flag fetched (no pixel byte of that skin, and
\* none at all when it is the first skin) and no mesh is emitted.
C3_GroupSkinRejected ==
  (pc \notin {"header", "skins"} /\ MdlHeaderValid /\ input.cut = 0 /\ FirstGroupSkin > 0)
    => /\ pc = "done" /\ result = "false"
       /\ offset = SkinStart(FirstGroupSkin) + 4
       /\ hiRead = SkinStart(FirstGroupSkin) + 4
       /\ Len(mdl.textures) = FirstGroupSkin - 1
       /\ ~mdl.mesh.created /\ mdl.targets = <<>> /\ meshes.list = <<>>
       /\ (FirstGroupSkin = 1 => hiRead = 88)

C3_Witness ==
  pc = "done" /\ FirstGroupSkin = 2 /\ result = "false" /\ Len(mdl.textures) = 1

\* Corners of the model's triangles, as (triangle, corner) pairs from 0.
MdlCorners == (0..(Len(input.tris) - 1)) \X (0..2)

CornerVertex(c) == input.tris[c[1] + 1].idx[c[2] + 1]

CornerOnBackOfSeam(c) ==
  input.verts[CornerVertex(c) + 1].onSeam # 0 /\ input.tris[c[1] + 1].front = 0

\* Twice the s texel coordinate a snapshot holds for corner c, before the
\* +0.5 and the division by skinWidth; likewise t.
TexelS2(f, c) == f.uvs[2 * (3 * c[1] + c[2]) + 1][1] - 1

TexelT2(f, c) == f.uvs[2 * (3 * c[1] + c[2]) + 2][1] - 1

\* C4: in every emitted frame the s texel coordinate of a corner is
\* rawS[v] + 0.5*skinWidth when v is on the seam and the corner's triangle
\* does not face front, rawS[v] otherwise, and t is rawT[v]; two corners on
\* one seam vertex in triangles facing differently differ by 0.5*skinWidth
\* in s and not in t.
C4_SeamUVPerTriangle ==
  \A n \in 1..Len(mdl.targets) :
    LET f == mdl.targets[n]
    IN /\ \A c \in MdlCorners :
            CornerVertex(c) \in 0..(Len(input.verts) - 1) =>
              /\ TexelS2(f, c) = 2 * input.verts[CornerVertex(c) + 1].s
                                   + (IF CornerOnBackOfSeam(c) THEN input.skinWidth ELSE 0)
              /\ TexelT2(f, c) = 2 * input.verts[CornerVertex(c) + 1].t
              /\ f.uvs[2 * (3 * c[1] + c[2]) + 1][2] = 2 * input.skinWidth
              /\ f.uvs[2 * (3 * c[1] + c[2]) + 2][2] = 2 * input.skinHeight
       /\ \A c1, c2 \in MdlCorners :
            (/\ CornerVertex(c1) = CornerVertex(c2)
             /\ CornerVertex(c1) \in 0..(Len(input.verts) - 1)
             /\ CornerOnBackOfSeam(c1) /\ input.tris[c2[1] + 1].front # 0)
              => /\ TexelS2(f, c1) - TexelS2(f, c2) = input.skinWidth
                 /\ TexelT2(f, c1) = TexelT2(f, c2)

C4_Witness ==
  /\ Len(mdl.targets) > 0
  /\ \E c1, c2 \in MdlCorners :
       /\ CornerVertex(c1) = CornerVertex(c2)
       /\ CornerVertex(c1) \in 0..(Len(input.verts) - 1)
       /\ CornerOnBackOfSeam(c1) /\ input.tris[c2[1] + 1].front # 0

\* Faces whose pass of the geometry loop has run, from 1.
FacesDone == 1..bsp.faceIdx

\* Entry q (from 1) of face i's range of the edge list, and its edge.
FaceEntry(i, q) == input.ledges[input.faces[i].ledgeIndex + q]

FaceEdge(i, q) ==
  input.edges[(IF FaceEntry(i, q) < 0 THEN -FaceEntry(i, q) ELSE FaceEntry(i, q)) + 1]

\* C5 as stated: a positive entry resolves to v0 of its edge, a negative
\* one to v1.
C5_AsStated ==
  \A i \in FacesDone : \A q \in 1..Len(bsp.polygons[i]) :
    /\ FaceEntry(i, q) > 0 => bsp.polygons[i][q] = FaceEdge(i, q)[1]
    /\ FaceEntry(i, q) < 0 => bsp.polygons[i][q] = FaceEdge(i, q)[2]

\* C5 amended: a negative entry resolves to v0 of its edge, every other
\* entry (positive or zero) to v1; the polygon has one vertex per entry.
C5_EdgeResolution ==
  \A i \in FacesDone :
    /\ Len(bsp.polygons[i]) = input.faces[i].numLedges
    /\ \A q \in 1..Len(bsp.polygons[i]) :
         /\ FaceEntry(i, q) < 0 => bsp.polygons[i][q] = FaceEdge(i, q)[1]
         /\ FaceEntry(i, q) >= 0 => bsp.polygons[i][q] = FaceEdge(i, q)[2]

C5_Witness ==
  \E i \in FacesDone :
    /\ \E q \in 1..Len(bsp.polygons[i]) : FaceEntry(i, q) < 0
    /\ \E q \in 1..Len(bsp.polygons[i]) : FaceEntry(i, q) > 0
    /\ \E q \in 1..Len(bsp.polygons[i]) : FaceEntry(i, q) = 0

\* Triangles the faces before face i (from 1) account for.
RECURSIVE FirstTriangle(_)
FirstTriangle(i) ==
  IF i = 1 THEN 0 ELSE FirstTriangle(i - 1) + (input.faces[i - 1].numLedges - 2)

\* The emitted position of corner c (from 0) of triangle slot x (from 0).
EmittedCorner(x, c) ==
  <<bsp.positions[9 * x + 3 * c + 1], bsp.positions[9 * x + 3 * c + 2],
    bsp.positions[9 * x + 3 * c + 3]>>

\* The position the loader emits for vertex v (from 0) of the file.
FileVertex(v) ==
  <<<<input.verts[v + 1][1], 10>>, <<input.verts[v + 1][2], 10>>,
    <<input.verts[v + 1][3], 10>>>>

\* C6: a face with n >= 3 edges yields n-2 triangles, triangle k made of
\* the polygon loop's vertices 0, k+1, k+2 in that order.
C6_FanTriangulation ==
  \A i \in FacesDone :
    LET n == input.faces[i].numLedges
        poly == bsp.polygons[i]
    IN n >= 3 =>
         /\ bsp.faceOffsets[i + 1] - bsp.faceOffsets[i] = n - 2
         /\ bsp.faceOffsets[i] = FirstTriangle(i)
         /\ \A k \in 0..(n - 3) :
              /\ EmittedCorner(FirstTriangle(i) + k, 0) = FileVertex(poly[1])
              /\ EmittedCorner(FirstTriangle(i) + k, 1) = FileVertex(poly[k + 2])
              /\ EmittedCorner(FirstTriangle(i) + k, 2) = FileVertex(poly[k + 3])

C6_Witness ==
  /\ pc = "done" /\ result = "true"
  /\ \E i \in FacesDone : input.faces[i].numLedges = 5
  /\ \E i \in FacesDone : input.faces[i].numLedges = 3

LevelValid ==
  /\ input.magic = 29 /\ input.cut = 0 /\ input.slack.bytes = 0
  /\ \A i \in 1..Len(input.faces) : input.faces[i].numLedges >= 3

LevelTriangles == FirstTriangle(Len(input.faces) + 1)

\* C7: for a valid level every emitted index lies in [0, 3 * triangles)
\* and the index ranges of the groups, in order, tile the index buffer.
C7_IndicesPartitioned ==
  (bsp.mesh /\ LevelValid) =>
    /\ Len(bsp.indices) = 3 * LevelTriangles
    /\ Len(bsp.positions) = 3 * (3 * LevelTriangles)
    /\ \A x \in 1..Len(bsp.indices) : bsp.indices[x] \in 0..(3 * LevelTriangles - 1)
    /\ Len(bsp.subMeshes) = Len(input.faces)
    /\ \A i \in 1..Len(bsp.subMeshes) :
         /\ bsp.subMeshes[i].indexStart = 3 * bsp.faceOffsets[i]
         /\ bsp.subMeshes[i].indexCount > 0
         /\ bsp.subMeshes[i].indexStart
              = (IF i = 1 THEN 0
                 ELSE bsp.subMeshes[i - 1].indexStart + bsp.subMeshes[i - 1].indexCount)
    /\ Len(bsp.subMeshes) > 0
    /\ bsp.subMeshes[Len(bsp.subMeshes)].indexStart
         + bsp.subMeshes[Len(bsp.subMeshes)].indexCount = Len(bsp.indices)

C7_Witness == bsp.mesh /\ LevelValid /\ Len(bsp.subMeshes) >= 2 /\ pc = "done"

\* Texture a face of the file references.
FaceTexture(i) == input.texinfos[input.faces[i].texInfoIndex + 1].miptex

\* C8: one group per distinct texture referenced by the faces, covering
\* exactly the triangles of the faces that reference it.
C8_OneGroupPerTexture ==
  (bsp.mesh /\ LevelValid) =>
    /\ Len(bsp.subMeshes) = Cardinality({FaceTexture(i) : i \in 1..Len(input.faces)})
    /\ \A a, b \in 1..Len(bsp.subMeshes) :
         bsp.subMeshes[a].materialIndex = bsp.subMeshes[b].materialIndex => a = b

\* Every frame record of the file is a single frame.
AllSingle == \A k \in 1..Len(input.frames) : input.frames[k].type = 0

\* The normal index byte the file holds for vertex v (from 0) of frame
\* record k (from 1).
NormalByte(k, v) == (7 * input.frames[k].seed + v) % 256

FrameNormalsBad(k) == \E v \in 0..(Len(input.verts) - 1) : NormalByte(k, v) >= 162

\* The file is complete, has no group skin and its triangles name vertices
\* of the file.
ModelWellFormed ==
  /\ MdlHeaderValid /\ input.cut = 0 /\ ~input.nullMeshes
  /\ FirstGroupSkin = 0
  /\ \A c \in MdlCorners : CornerVertex(c) \in 0..(Len(input.verts) - 1)

ModelValid ==
  /\ ModelWellFormed
  /\ \A k \in 1..Len(input.frames) : ~FrameNormalsBad(k)

SingleFrames == {i \in 1..Len(input.frames) : input.frames[i].type = 0}

\* C9: for a valid model the decode yields one snapshot per frame record
\* with type flag 0, with arrays of 9, 9 and 6 entries per triangle.
C9_SnapshotPerSingleFrame ==
  (pc = "done" /\ ModelValid) =>
    /\ Len(mdl.targets) = Cardinality(SingleFrames)
    /\ \A n \in 1..Len(mdl.targets) :
         /\ Len(mdl.targets[n].positions) = 9 * Len(input.tris)
         /\ Len(mdl.targets[n].normals) = 9 * Len(input.tris)
         /\ Len(mdl.targets[n].uvs) = 6 * Len(input.tris)

\* C10: a decoded group record with n frames moves the cursor by
\* 4 + 4 + 8 + 4n + n(24 + 4 * vertexCount).
C10_GroupRecordLength ==
  \A k \in 1..Len(mdl.frameLog) :
    LET g == mdl.frameLog[k]
    IN g.type # 0 =>
         g.end - g.start = 4 + 4 + 8 + 4 * g.n + g.n * (24 + 4 * mdl.header.numVertices)

\* C11: whenever model decoding fails (result false or an exception), no
\* mesh has been appended to the caller's list and no frame snapshot is
\* attached to an emitted mesh.
C11_AllOrNothing ==
  (pc = "done" /\ result # "true") => (meshes.list = <<>> /\ mdl.targets = <<>>)

\* C12: the read offset always lies within the buffer, 0 <= offset <= L.
C12_CursorInBounds == offset >= 0 /\ offset <= Len(data)

\* Some triangle of the file holds a vertex index outside [0, vertexCount).
HasBadIndex == \E c \in MdlCorners : CornerVertex(c) \notin 0..(Len(input.verts) - 1)

\* C13: when a triangle holds a vertex index outside [0, vertexCount), the
\* decode ends with an error and no emitted snapshot has a corner taken from
\* outside the frame's vertex table.
C13_BadIndexRejected ==
  (MdlHeaderValid /\ input.cut = 0 /\ FirstGroupSkin = 0 /\ HasBadIndex) =>
    /\ pc = "done" => result \in {"RangeError", "TypeError"}
    /\ \A n \in 1..Len(mdl.targets) :
         \A c \in 1..Len(mdl.targets[n].nan) : ~mdl.targets[n].nan[c]

\* Face i (from 1) of the file has an edge range that leaves the edge list.
FaceRangeBad(i) ==
  \/ input.faces[i].ledgeIndex < 0
  \/ input.faces[i].ledgeIndex + input.faces[i].numLedges > Len(input.ledges)

\* An entry of face i's range names an edge the file does not have.
FaceEntryBad(i) ==
  /\ ~FaceRangeBad(i)
  /\ \E q \in 1..input.faces[i].numLedges :
       Abs(FaceEntry(i, q)) >= Len(input.edges)

\* An entry of face i's range names an edge none of whose ends is a vertex
\* of the file.
FaceVertexBad(i) ==
  /\ ~FaceRangeBad(i) /\ ~FaceEntryBad(i)
  /\ \E q \in 1..input.faces[i].numLedges :
       /\ FaceEdge(i, q)[1] >= Len(input.verts)
       /\ FaceEdge(i, q)[2] >= Len(input.verts)

FaceBad(i) == FaceRangeBad(i) \/ FaceEntryBad(i) \/ FaceVertexBad(i)

\* C14: when a face's edge range leaves the edge list, or one of its
\* entries or resolved vertices leaves the edge or vertex table, the level
\* decode ends with an error, builds no mesh and appends none.
C14_BadFaceRejected ==
  (input.magic = 29 /\ input.cut = 0 /\ \E i \in 1..Len(input.faces) : FaceBad(i)) =>
    /\ pc = "done" => result \in {"RangeError", "TypeError"}
    /\ ~bsp.mesh /\ bsp.subMeshes = <<>> /\ meshes.list = <<>>

\* The same for faces of three or more edges only.
BadProperFaceRejected ==
  (input.magic = 29 /\ input.cut = 0
     /\ \E i \in 1..Len(input.faces) : FaceBad(i) /\ input.faces[i].numLedges >= 3) =>
    /\ pc = "done" => result \in {"RangeError", "TypeError"}
    /\ ~bsp.mesh /\ bsp.subMeshes = <<>> /\ meshes.list = <<>>

\* C15: the normal table has 162 entries; every normal of an emitted frame
\* is the table entry its vertex's index byte selects; a frame holding an
\* index byte >= 162 ends the decode with an error and yields no snapshot.
C15_NormalTable ==
  /\ Len(anormals) = 162
  /\ (ModelWellFormed /\ AllSingle) =>
       /\ \A n \in 1..Len(mdl.targets) :
            /\ ~FrameNormalsBad(n)
            /\ \A c \in MdlCorners : \A a \in 1..3 :
                 mdl.targets[n].normals[3 * (3 * c[1] + c[2]) + a]
                   = anormals[NormalByte(n, CornerVertex(c)) + 1][a]
       /\ (pc = "done" /\ \E k \in 1..Len(input.frames) : FrameNormalsBad(k))
            => result = "TypeError"

C15_Witness ==
  /\ pc = "done" /\ ModelWellFormed /\ AllSingle
  /\ Len(input.verts) = 2 /\ NormalByte(1, 0) = 161 /\ NormalByte(1, 1) = 162
  /\ result = "TypeError" /\ mdl.targets = <<>>

\* The RGB buffer data holds, pixel by pixel in row-major order, the palette
\* entries of the w*h index bytes of an image built with seed.
PaletteDecoded(buf, w, h, seed) ==
  /\ Len(buf) = 3 * w * h
  /\ \A i \in 0..(w * h - 1) : \A a \in 1..3 :
       buf[3 * i + a] = colorMap[SkinPixel(seed, i) + 1][a]

\* C16: every decoded skin and level texture is an RGB buffer of length
\* 3*width*height whose bytes 3i..3i+2 are the palette entry of index byte
\* i; the palette has 256 entries, is the same table in both loaders, and
\* maps 0 to (0,0,0) and 255 to (159,91,83).
C16_PaletteDecode ==
  /\ Len(colorMap) = 256 /\ colorMapBSP = colorMap
  /\ colorMap[0 + 1] = <<0, 0, 0>> /\ colorMap[255 + 1] = <<159, 91, 83>>
  /\ \A k \in 1..Len(mdl.textures) :
       /\ mdl.textures[k].width = input.skinWidth
       /\ mdl.textures[k].height = input.skinHeight
       /\ PaletteDecoded(mdl.textures[k].data, input.skinWidth, input.skinHeight,
                         input.skins[k].seed)
  /\ \A k \in 1..Len(bsp.materials) :
       /\ bsp.materials[k].width = input.textures[k].width
       /\ bsp.materials[k].height = input.textures[k].height
       /\ PaletteDecoded(bsp.materials[k].data, input.textures[k].width,
                         input.textures[k].height, input.textures[k].seed)

C16_Witness ==
  /\ loader = "mdl" /\ pc = "done" /\ result = "true"
  /\ Len(mdl.textures) = 2 /\ input.skinHeight = 2
  /\ input.skins[1].seed = 0 /\ input.skins[2].seed = 255
  /\ SubSeq(mdl.textures[1].data, 1, 3) = <<0, 0, 0>>
  /\ SubSeq(mdl.textures[2].data, 1, 3) = <<159, 91, 83>>

SlotPair(n) ==
  LET secs == BspSections(input)
      k == CHOOSE k \in 1..Len(secs) : secs[k][1] = n
  IN <<BspSectionStart(secs, k),
       Len(secs[k][2]) + (IF input.slack.slot = n THEN input.slack.bytes ELSE 0)>>

\* Entry e of the decoded header is slot n's pair, its count the byte length
\* over size, which is the number of records num the file holds there.
EntryIsSlot(e, n, size, num) ==
  /\ e.offset = SlotPair(n)[1]
  /\ e.count = <<SlotPair(n)[2], size>>
  /\ input.slack.bytes = 0 => e.count[1] = size * num

\* C18: the header parser takes planes, vertices, texinfo, faces, edges and
\* the edge list from directory slots 1, 3, 6, 7, 12 and 13 (bytes 12, 28,
\* 52, 60, 100, 108), the texture table's offset from slot 2, sets each
\* count to the byte length over the element size (20, 12, 40, 20, 4, 4)
\* and leaves the cursor at byte 124.
C18_HeaderDirectory ==
  (input.magic = 29 /\ input.cut = 0 /\ pc # "header") =>
    /\ EntryIsSlot(bsp.header.planes, 1, 20, Len(input.planes))
    /\ EntryIsSlot(bsp.header.vertices, 3, 12, Len(input.verts))
    /\ EntryIsSlot(bsp.header.texinfo, 6, 40, Len(input.texinfos))
    /\ EntryIsSlot(bsp.header.faces, 7, 20, Len(input.faces))
    /\ EntryIsSlot(bsp.header.edges, 12, 4, Len(input.edges))
    /\ EntryIsSlot(bsp.header.ledges, 13, 4, Len(input.ledges))
    /\ bsp.header.miptex.offset = SlotPair(2)[1]
    /\ bsp.header.planes.offset = getInt32(data, 12)
    /\ bsp.header.vertices.offset = getInt32(data, 28)
    /\ bsp.header.texinfo.offset = getInt32(data, 52)
    /\ bsp.header.faces.offset = getInt32(data, 60)
    /\ bsp.header.edges.offset = getInt32(data, 100)
    /\ bsp.header.ledges.offset = getInt32(data, 108)
    /\ (pc = "vertices" => offset = 124 /\ hiRead = 116)

C18_Witness ==
  /\ pc = "vertices" /\ offset = 124
  /\ bsp.header.vertices = [offset |-> 124, count |-> <<60, 12>>]
  /\ bsp.header.ledges.count = <<84, 4>>
  /\ Len(input.faces) = 2

\* The texture table has been decoded.
MiptexDone ==
  \/ pc \in {"materials", "ledges", "planes", "faces", "geometry", "push"}
  \/ (pc = "done" /\ result = "true")

\* C19: the texture count is the u32 at the section offset and replaces
\* the directory's value; that many u32 record offsets follow it; texture
\* record i is decoded at section offset + offset[i]; there are exactly
\* that many records.
C19_TextureTable ==
  (input.magic = 29 /\ input.cut = 0) =>
    /\ pc = "miptex" => bsp.header.miptex.count = <<SlotPair(2)[2], 1>>
    /\ MiptexDone =>
         /\ bsp.header.miptex.count = <<getUint32(data, SlotPair(2)[1]), 1>>
         /\ bsp.header.miptex.count = <<Len(input.textures), 1>>
         /\ Len(bsp.miptexOffsets) = Len(input.textures)
         /\ Len(bsp.miptexs) = Len(input.textures)
         /\ \A k \in 1..Len(input.textures) :
              /\ bsp.miptexOffsets[k] = getUint32(data, SlotPair(2)[1] + 4 * k)
              /\ bsp.miptexOffsets[k] = BspTextureStart(input.textures, k)
              /\ bsp.miptexs[k].name = <<116, 48 + k>>
              /\ bsp.miptexs[k].width = input.textures[k].width
              /\ bsp.miptexs[k].height = input.textures[k].height
              /\ bsp.miptexs[k].width
                   = getUint32(data, SlotPair(2)[1] + bsp.miptexOffsets[k] + 16)

C19_Witness ==
  /\ pc = "materials" /\ Len(bsp.miptexs) = 3
  /\ SlotPair(2)[2] # 3
  /\ bsp.miptexs[1].height = 2 /\ bsp.miptexs[2].height = 1 /\ bsp.miptexs[3].height = 2

\* The materials have been made.
MaterialsDone ==
  \/ pc \in {"ledges", "planes", "faces", "geometry", "push"}
  \/ (pc = "done" /\ result = "true")

\* C20 as stated: the full-size image of texture i is read at the texture
\* section's offset plus the record's first mip offset.
C20_AsStated ==
  (input.magic = 29 /\ input.cut = 0 /\ MaterialsDone) =>
    \A k \in 1..Len(bsp.materials) :
      bsp.materials[k].start = SlotPair(2)[1] + bsp.miptexs[k].offsets[1]

\* C20 amended: the mip offsets count from the start of the texture record:
\* the width*height palette indices of texture i are read from the texture
\* section's offset plus record i's offset plus the record's first mip
\* offset.
C20_ImageAtRecordOffset ==
  (input.magic = 29 /\ input.cut = 0 /\ MaterialsDone) =>
    /\ Len(bsp.materials) = Len(input.textures)
    /\ \A k \in 1..Len(bsp.materials) :
         /\ bsp.materials[k].start
              = SlotPair(2)[1] + bsp.miptexOffsets[k] + bsp.miptexs[k].offsets[1]
         /\ \A i \in 0..(input.textures[k].width * input.textures[k].height - 1) :
              /\ getUint8(data, bsp.materials[k].start + i)
                   = SkinPixel(input.textures[k].seed, i)
              /\ \A a \in 1..3 :
                   bsp.materials[k].data[3 * i + a]
                     = colorMapBSP[getUint8(data, bsp.materials[k].start + i) + 1][a]

C20_Witness ==
  /\ pc = "ledges" /\ Len(bsp.materials) = 2
  /\ bsp.miptexOffsets = <<12, 54>> /\ bsp.miptexs[2].offsets[1] = 40
  /\ bsp.materials[2].start = SlotPair(2)[1] + 54 + 40
  /\ SubSeq(bsp.materials[2].data, 1, 3) = <<159, 91, 83>>

\* load(scene, data, rootUrl) is importMesh(null, scene, data, rootUrl,
\* null, null, null); what it returns is what that call returns.
ViaLoad == meshes.null

\* The file handed to load is one the loader should decode: a complete
\* model with the right magic and version, no group skin, single frames,
\* vertex and normal indices in range; or a complete level of version 29
\* whose faces are proper polygons over the file's tables.
LoadWellFormed ==
  IF loader = "mdl"
    THEN /\ MdlHeaderValid /\ input.cut = 0 /\ FirstGroupSkin = 0 /\ AllSingle
         /\ ~HasBadIndex
         /\ \A k \in 1..Len(input.frames) : ~FrameNormalsBad(k)
    ELSE LevelValid /\ \A i \in 1..Len(input.faces) : ~FaceBad(i)

\* C21: load of either loader returns true when the input decodes and
\* false otherwise; on a well-formed input it completes and returns true.
C21_LoadReturnsTrue ==
  (ViaLoad /\ pc = "done") =>
    /\ result \in {"true", "false"}
    /\ LoadWellFormed => result = "true"

\* load throws at meshes.push(mesh) on a well-formed model and on a
\* well-formed level.
C21_LoadThrows ==
  /\ ViaLoad /\ pc = "done" /\ LoadWellFormed
  /\ result = "TypeError"

\* The time at which the last run of the callback started, in quarters.
EntryTime == view.time - 1

\* Target f is the one the callback's last run showed.
Shown(f) == view.on /\ view.time > 0 /\ view.frame = f /\ view.influence[f + 1] > 0

\* After a run of the callback on n >= 2 targets: with f = floor(time mod n)
\* and a = (time mod n) - f at the time the run started, target f has
\* influence 1 - a, target (f + 1) mod n has a, every other target 0, and
\* the influences add up to 1.
InfluencesBlend ==
  (view.on /\ numTargets >= 2 /\ view.time > 0) =>
    LET n == numTargets
        f == (EntryTime \div 4) % n
        a == EntryTime % 4
    IN /\ Len(view.influence) = n
       /\ view.frame = f
       /\ \A i \in 0..(n - 1) :
            view.influence[i + 1] = IF i = f THEN 4 - a
                                    ELSE IF i = (f + 1) % n THEN a
                                    ELSE 0
       /\ Sum(view.influence) = 4

\* From one run of the callback to the next the frame shown stays or moves
\* on by one, wrapping from the last to the first; the first run shows
\* frame 0.
FramesInOrder ==
  (view.on /\ numTargets >= 2 /\ view'.time = view.time + 1) =>
    IF view.time = 0
      THEN view'.frame = 0
      ELSE view'.frame \in {view.frame, (view.frame + 1) % numTargets}

FilePosition(k, v, a) ==
  VertexBytes(input.frames[k].seed, v)[a + 1] * input.scale[a + 1] + input.translate[a + 1]

\* Component a of the table normal the file names for that vertex.
FileNormal(k, v, a) == anormals[NormalByte(k, v) + 1][a + 1]

\* C23: in every emitted frame the position and the normal of corner (i, j),
\* at slot 3*i + j, are those the frame's record holds for the vertex the
\* j-th index of triangle i names; the index buffer of the emitted mesh is
\* 0, 1, ..., 3 * triangleCount - 1.
C23_CornerCopiesVertex ==
  (MdlHeaderValid /\ FirstGroupSkin = 0 /\ AllSingle) =>
    /\ \A n \in 1..Len(mdl.targets) :
         \A c \in MdlCorners :
           CornerVertex(c) \in 0..(Len(input.verts) - 1) =>
             \A a \in 0..2 :
               LET slot == 3 * c[1] + c[2]
               IN /\ mdl.targets[n].positions[3 * slot + a + 1]
                       = FilePosition(n, CornerVertex(c), a)
                  /\ mdl.targets[n].normals[3 * slot + a + 1]
                       = FileNormal(n, CornerVertex(c), a)
    /\ mdl.mesh.created =>
         /\ Len(mdl.mesh.indices) = 3 * Len(input.tris)
         /\ \A x \in 1..Len(mdl.mesh.indices) : mdl.mesh.indices[x] = x - 1

\* A frame decoded of a model whose second triangle starts at the last
\* vertex: the corner at slot 3 holds that vertex, not vertex 0.
C23_Witness ==
  /\ Len(mdl.targets) = 1 /\ Len(input.tris) = 2 /\ Len(input.verts) = 3
  /\ CornerVertex(<<1, 0>>) = 2
  /\ mdl.targets[1].positions[10] = FilePosition(1, 2, 0)
  /\ FilePosition(1, 2, 0) # FilePosition(1, 0, 0)
  /\ mdl.mesh.indices = <<0, 1, 2, 3, 4, 5>>

\* C24: a read that returns moves the offset by the width of its type (1
\* for U8, 2 for U16 and I16, 4 for U32, I32 and F32); readUint8Array(n)
\* moves it by n, readUint32Array(n) by 4n, skipBytes(n) by n; seekBytes(o)
\* sets it to o; getPosition returns the offset and getLength the length of
\* the buffer, which stays what it was.
C24_CursorAdvance ==
  /\ (loader = "reader" /\ reader.op # "none" /\ ~reader.threw) =>
       CASE reader.op = "readUint8" -> offset = reader.before + 1
         [] reader.op = "readInt16" -> offset = reader.before + 2
         [] reader.op = "readUint16" -> offset = reader.before + 2
         [] reader.op = "readInt32" -> offset = reader.before + 4
         [] reader.op = "readUint32" -> offset = reader.before + 4
         [] reader.op = "readFloat32" -> offset = reader.before + 4
         [] reader.op = "readUint8Array" -> offset = reader.before + reader.arg
         [] reader.op = "readUint32Array" -> offset = reader.before + 4 * reader.arg
         [] reader.op = "skipBytes" -> offset = reader.before + reader.arg
         [] reader.op = "seekBytes" -> offset = reader.arg
         [] reader.op = "getPosition" ->
              offset = reader.before /\ reader.value = offset
         [] reader.op = "getLength" ->
              offset = reader.before /\ reader.value = input.length
  /\ loader = "reader" => Len(data) = input.length

\* A 16-bit read from offset 3 of a six-byte buffer has returned.
C24_Witness ==
  /\ loader = "reader" /\ input.length = 6
  /\ reader.op = "readInt16" /\ ~reader.threw /\ reader.before = 3 /\ offset = 5

\* C26: a read that fails because it would run past the end of the data
\* leaves the offset where it was.
C26_FailedReadKeepsOffset ==
  (loader = "reader" /\ reader.threw) => offset = reader.before

\* A 32-bit read two bytes before the end of a six-byte buffer has thrown.
C26_Witness ==
  /\ loader = "reader" /\ input.length = 6
  /\ reader.op = "readInt32" /\ reader.threw /\ reader.before = 4 /\ offset = 4

\* Where the decoder of the section in directory slot n, with num records
\* of size bytes each, leaves the cursor.
SectionEnd(n, num, size) == SlotPair(n)[1] + num * size

\* The section decoders that have run when importMesh is at pc, in order.
SectionsDone ==
  CASE pc = "vertices" -> 0
    [] pc = "edges" -> 1
    [] pc = "texinfos" -> 2
    [] pc \in {"miptex", "materials", "ledges"} -> 3
    [] pc = "planes" -> 4
    [] pc = "faces" -> 5
    [] pc \in {"geometry", "push"} -> 6
    [] pc = "done" /\ result = "true" -> 6
    [] OTHER -> -1

\* C25: each section decoder of the level loader, started at directory
\* offset o with count c, leaves the cursor at o + c * elementSize, the
\* element size being the divisor that gave the count (plane 20, vertex 12,
\* texinfo 40, face 20, edge 4, edge-list entry 4); record k is read from
\* o + k * elementSize.
C25_SectionCursor ==
  (loader = "bsp" /\ input.magic = 29 /\ input.cut = 0 /\ input.slack.bytes = 0) =>
    LET h == bsp.header
    IN /\ SectionsDone = 1 =>
            /\ offset = SectionEnd(3, Len(input.verts), 12) /\ h.vertices.count[2] = 12
            /\ Len(bsp.vertices) = Len(input.verts)
            /\ \A k \in 1..Len(input.verts) : \A a \in 1..3 :
                 bsp.vertices[k][a] = <<input.verts[k][a], 10>>
       /\ SectionsDone = 2 =>
            /\ offset = SectionEnd(12, Len(input.edges), 4) /\ h.edges.count[2] = 4
            /\ Len(bsp.edges) = Len(input.edges)
            /\ \A k \in 1..Len(input.edges) :
                 bsp.edges[k] = [x |-> input.edges[k][1], y |-> input.edges[k][2]]
       /\ SectionsDone = 3 /\ pc = "miptex" =>
            /\ offset = SectionEnd(6, Len(input.texinfos), 40) /\ h.texinfo.count[2] = 40
            /\ Len(bsp.texinfos) = Len(input.texinfos)
            /\ \A k \in 1..Len(input.texinfos) :
                 /\ bsp.texinfos[k].s = input.texinfos[k].s
                 /\ bsp.texinfos[k].t = input.texinfos[k].t
                 /\ bsp.texinfos[k].miptex = input.texinfos[k].miptex
       /\ SectionsDone = 4 =>
            /\ offset = SectionEnd(13, Len(input.ledges), 4) /\ h.ledges.count[2] = 4
            /\ bsp.ledges = input.ledges
       /\ SectionsDone = 5 =>
            /\ offset = SectionEnd(1, Len(input.planes), 20) /\ h.planes.count[2] = 20
            /\ Len(bsp.planes) = Len(input.planes)
            /\ \A k \in 1..Len(input.planes) :
                 /\ bsp.planes[k].normal = input.planes[k].normal
                 /\ bsp.planes[k].distance = input.planes[k].distance
                 /\ bsp.planes[k].type = input.planes[k].type
       /\ SectionsDone = 6 =>
            /\ offset = SectionEnd(7, Len(input.faces), 20) /\ h.faces.count[2] = 20
            /\ Len(bsp.faces) = Len(input.faces)
            /\ \A k \in 1..Len(input.faces) :
                 /\ bsp.faces[k].ledgeIndex = input.faces[k].ledgeIndex
                 /\ bsp.faces[k].numLedges = input.faces[k].numLedges
                 /\ bsp.faces[k].texInfoIndex = input.faces[k].texInfoIndex
                 /\ bsp.faces[k].lightMap = -1

\* The face decoder has run on a level with two faces: the second record
\* was read 20 bytes after the first and the cursor is 40 bytes past the
\* section's start, at the end of the file.
C25_Witness ==
  /\ loader = "bsp" /\ pc = "geometry" /\ bsp.faceIdx = 0
  /\ Len(input.faces) = 2 /\ Len(bsp.faces) = 2
  /\ bsp.faces[2].ledgeIndex = input.faces[2].ledgeIndex
  /\ input.faces[2].ledgeIndex # input.faces[1].ledgeIndex
  /\ offset = bsp.header.faces.offset + 40 /\ offset = Len(data)

\* Where the decode of the file's model ends: the header, the skins, the
\* UV table, the triangles and the frames.
ModelEnd ==
  84 + Len(input.skins) * (4 + input.skinWidth * input.skinHeight)
     + 12 * Len(input.verts) + 16 * Len(input.tris)
     + Len(input.frames) * (28 + 4 * Len(input.verts))

\* C27: for a valid model without grouped frames the skin records start at
\* byte 84, a successful decode leaves the cursor at
\* 84 + skinCount*(4 + skinWidth*skinHeight) + 12*vertexCount
\*    + 16*triangleCount + frameCount*(28 + 4*vertexCount),
\* and no byte beyond that is ever read.
C27_ModelCursorEnd ==
  (loader = "mdl" /\ ModelValid /\ AllSingle) =>
    /\ (pc = "skins" /\ mdl.skinIdx = 0) => offset = 84
    /\ (pc = "done" /\ result = "true") => offset = ModelEnd
    /\ hiRead <= ModelEnd

\* The two-frame model of 222 bytes decoded to its end.
C27_Witness ==
  /\ loader = "mdl" /\ ModelValid /\ AllSingle
  /\ pc = "done" /\ result = "true" /\ Len(input.frames) = 2
  /\ offset = 222 /\ hiRead = 222 /\ Len(data) = 222

\* C28: the before-render callback hands getTarget only indices in
\* [0, numTargets); with no morph target (no frame, or grouped frames only)
\* it accesses none.
C28_TargetsInRange ==
  view.on => view.touched \subseteq 0..(numTargets - 1)

\* The directory entries whose count readHeader derives by a division.
DividedEntries ==
  {bsp.header.planes, bsp.header.vertices, bsp.header.texinfo, bsp.header.faces,
   bsp.header.edges, bsp.header.ledges}

\* C29: every section count the header parser derives is a non-negative
\* whole number, and no section decoder reads past the byte length its
\* directory entry states (no partial trailing record is decoded).
C29_WholeCounts ==
  (loader = "bsp" /\ input.magic = 29 /\ input.cut = 0) =>
    /\ \A e \in DividedEntries : e.count[1] >= 0 /\ e.count[1] % e.count[2] = 0
    /\ pc = "planes" => offset <= bsp.header.ledges.offset + bsp.header.ledges.count[1]

\* The edge list of 15 entries stated as 62 bytes: the count is 15.5, the
\* loop makes a 16th pass and the cursor ends 64 bytes into the section.
C29_PartialRecordRead ==
  /\ loader = "bsp" /\ pc = "planes"
  /\ bsp.header.ledges.count = <<62, 4>>
  /\ offset = bsp.header.ledges.offset + 64
  /\ Len(bsp.ledges) = 15

====
